---- MODULE Spec2Model ----
(***************************************************************************)
(* Search and filter engine of the features / documentation showcase site. *)
(*                                                                         *)
(* Strings are sequences of one-character strings, so that trimming,       *)
(* lower-casing, substring and subsequence matching are computed the way   *)
(* the JavaScript computes them.  Relevance scores that the code computes  *)
(* as fractions are kept exact by scaling every score by Unit.             *)
(***************************************************************************)
EXTENDS Integers, Sequences, FiniteSets, TLC

VARIABLES
    \* ---- ranking functions called on a store (DataService / DocumentService)
    store,          \* the record sequence searched (features argument / this.documents)
    kind,           \* which service is called: "features" or "documents"
    query,          \* the query argument
    language,       \* the language argument
    ranked,         \* the returned sequence
    pc,             \* "call" before the function ran, "done" after
    initialized,    \* this.initialized of the service
    raised,         \* the error the call threw, "none" if it returned
    \* ---- DocumentSearch (fields) and the DOM it drives
    currentLanguage,    \* this.currentLanguage
    searchCache,        \* this.searchCache: cache key -> results
    searchHistory,      \* this.searchHistory, when it is an array
    historyType,        \* what this.searchHistory is: "array", "null", "number", ...
    localStorage,       \* the item stored under 'docs-search-history'
    quotaExceeded,      \* localStorage.setItem throws (storage full or disabled)
    thrown,             \* an exception escaped the handler that ran last
    searchTimeout,      \* this.searchTimeout: the debounce timer
    inputs,             \* value of #sidebar-search-input and #header-search-input
    suggestionEls,      \* the .search-suggestion children of #search-suggestions
    suggestionsDisplay, \* style.display of #search-suggestions
    activeSuggestion,   \* index of the .search-suggestion.active element, 0 if none
    activeDocumentId,   \* navigationTree.activeDocumentId
    navItemStyle,       \* style attribute of each .nav-item, by document id
    navCategoryStyle,   \* style attribute of each .nav-category, by category id
    \* ---- the language of the documentation hub (DocsApp and its services)
    i18nLanguage,       \* I18nService.currentLanguage
    languageItem,       \* the item stored under 'claude-code-language'
    docsLanguage,       \* DocsApp.currentLanguage
    navLanguage,        \* NavigationTree.currentLanguage
    \* ---- the feature detail modal
    modal,              \* ModalComponent: its fields, its overlay, and its
                        \* setTimeout callbacks not yet run
    \* ---- the features application (ClaudeCodeFeaturesApp and its components)
    filters,            \* FilterComponent.filters / the filters argument of filterFeatures
    filteredFeatures,   \* ClaudeCodeFeaturesApp.filteredFeatures: the list displayed
    currentQuery,       \* SearchComponent.currentQuery
    debouncedSearch,    \* the timer inside SearchComponent.debouncedSearch
    suggestions,        \* SearchComponent.suggestions
    selectedSuggestion, \* SearchComponent.selectedSuggestion, -1 if none
    suggestionsShown,   \* #search-suggestions of the features page has class 'show'
    \* ---- the timers of the page
    strayTimers,        \* searches set with setTimeout, neither cancelled nor run,
                        \* whose id no handle of a controller holds any more
    \* ---- observations of the run
    sinceInput,         \* ms since the last input event, capped at DebounceMs
    burstLast,          \* text of the last input event of the current burst
    executed,           \* queries the debounce timer searched for since the burst began
    shown,              \* the last call of displaySearchResults, and whether the
                        \* handler that ran last made it
    lastOp,             \* the handler that ran last
    pushed,             \* arguments of addToSearchHistory since the history was empty
    before,             \* the history before the last addToSearchHistory
    watch               \* which of these observations the run records

rankVars == <<store, kind, query, language, ranked, pc, initialized, raised>>

dsVars == <<currentLanguage, searchCache, searchHistory, historyType, localStorage,
            quotaExceeded, thrown, searchTimeout,
            inputs, suggestionEls, suggestionsDisplay, activeSuggestion,
            activeDocumentId, navItemStyle, navCategoryStyle,
            i18nLanguage, languageItem, docsLanguage, navLanguage, modal>>

obsVars == <<sinceInput, burstLast, executed, shown, lastOp, pushed, before, watch>>

appVars == <<filters, filteredFeatures, currentQuery, debouncedSearch,
             suggestions, selectedSuggestion, suggestionsShown>>

vars == <<rankVars, dsVars, appVars, obsVars, strayTimers>>

(***************************************************************************)
(* Strings                                                                 *)
(***************************************************************************)
MaxStrLen == 7

RECURSIVE GCD(_, _)
GCD(a, b) == IF b = 0 THEN a ELSE GCD(b, a % b)

RECURSIVE LCMUpTo(_)
LCMUpTo(n) == IF n <= 1 THEN 1 ELSE (LCMUpTo(n - 1) * n) \div GCD(LCMUpTo(n - 1), n)

\* One score point.  Utils.fuzzySearch returns fractions with denominators
\* 10 * haystack.length; the callers multiply by 30, 20 and 25.
Unit == 10 * LCMUpTo(MaxStrLen)

Empty == << >>

\* String.prototype.toLowerCase on the alphabet used here
LowerChar(c) == IF c = "A" THEN "a" ELSE IF c = "B" THEN "b" ELSE c

ToLower(s) == [i \in 1..Len(s) |-> LowerChar(s[i])]

Min(S) == CHOOSE x \in S : \A y \in S : x <= y

Max(S) == CHOOSE x \in S : \A y \in S : x >= y

\* String.prototype.trim
Trim(s) ==
    LET solid == {i \in 1..Len(s) : s[i] # " "}
    IN  IF solid = {} THEN Empty ELSE SubSeq(s, Min(solid), Max(solid))

\* String.prototype.includes
Includes(haystack, needle) ==
    \E i \in 0..(Len(haystack) - Len(needle)) :
        SubSeq(haystack, i + 1, i + Len(needle)) = needle

\* a || b on strings: the empty (or missing) string is falsy
OrElse(a, b) == IF a # Empty THEN a ELSE b

\* field[language] || field.en || ''
Localized(field, lang) == OrElse(OrElse(field[lang], field["en"]), Empty)

(***************************************************************************)
(* Utils.fuzzySearch, scaled by Unit                                       *)
(***************************************************************************)
\* the character-matching loop: returns <<score, needleIndex>>
RECURSIVE FuzzyLoop(_, _, _, _, _)
FuzzyLoop(needle, haystack, i, needleIndex, score) ==
    IF i <= Len(haystack) /\ needleIndex < Len(needle)
    THEN IF haystack[i] = needle[needleIndex + 1]
         THEN FuzzyLoop(needle, haystack, i + 1, needleIndex + 1, score + 1)
         ELSE FuzzyLoop(needle, haystack, i + 1, needleIndex, score)
    ELSE <<score, needleIndex>>

\* the substring branch without its length term
FuzzySearchFlat(needleIn, haystackIn) ==
    IF needleIn = Empty \/ haystackIn = Empty THEN 0
    ELSE LET needle == ToLower(needleIn)
             haystack == ToLower(haystackIn)
             loop == FuzzyLoop(needle, haystack, 1, 0, 0)
         IN  IF haystack = needle THEN Unit
             ELSE IF Includes(haystack, needle) THEN (8 * Unit) \div 10
             ELSE IF loop[2] = Len(needle)
                  THEN (6 * loop[1] * Unit) \div (10 * Len(needle))
                  ELSE 0

\* the subsequence branch scaled by 6 instead of 0.6
FuzzySearchLoud(needleIn, haystackIn) ==
    IF needleIn = Empty \/ haystackIn = Empty THEN 0
    ELSE LET needle == ToLower(needleIn)
             haystack == ToLower(haystackIn)
             loop == FuzzyLoop(needle, haystack, 1, 0, 0)
         IN  IF haystack = needle THEN Unit
             ELSE IF Includes(haystack, needle)
             THEN (8 * Unit) \div 10
                  - (3 * (Len(haystack) - Len(needle)) * Unit) \div (10 * Len(haystack))
             ELSE IF loop[2] = Len(needle)
                  THEN (6 * loop[1] * Unit) \div Len(needle)
                  ELSE 0

\* Utils.fuzzySearch
FuzzySearch(needleIn, haystackIn) ==
    IF needleIn = Empty \/ haystackIn = Empty THEN 0
    ELSE LET needle == ToLower(needleIn)
             haystack == ToLower(haystackIn)
             loop == FuzzyLoop(needle, haystack, 1, 0, 0)
         IN  IF haystack = needle THEN Unit
             ELSE IF Includes(haystack, needle)
             THEN (8 * Unit) \div 10
                  - (3 * (Len(haystack) - Len(needle)) * Unit) \div (10 * Len(haystack))
             ELSE IF loop[2] = Len(needle)
                  THEN (6 * loop[1] * Unit) \div (10 * Len(needle))
                  ELSE 0

\* sum and maximum over a sequence of numbers
RECURSIVE SumSeq(_)
SumSeq(s) == IF s = << >> THEN 0 ELSE Head(s) + SumSeq(Tail(s))

RECURSIVE MaxSeq(_)
MaxSeq(s) ==
    IF s = << >> THEN 0
    ELSE LET rest == MaxSeq(Tail(s)) IN IF Head(s) > rest THEN Head(s) ELSE rest

(***************************************************************************)
(* DataService                                                             *)
(***************************************************************************)
\* this.categories of the DataService
FeatureCategories == << [id |-> <<"a", "b">>], [id |-> <<"b", "b">>] >>

\* a field the record does not have: reading it gives undefined
Undefined == [undefined |-> TRUE]

IsUndefined(field) == DOMAIN field = {"undefined"}

\* feature.title[language], feature.description[language] and
\* feature.details[language] throw a TypeError when the map is undefined
FeatureThrows(feature) ==
    \/ IsUndefined(feature.title)
    \/ IsUndefined(feature.description)
    \/ IsUndefined(feature.details)

\* the forEach of searchFeatures throws at the first such feature
SearchFeaturesThrows(features, q) ==
    /\ Trim(q) # Empty
    /\ \E i \in 1..Len(features) : FeatureThrows(features[i])

\* doc.title[language], doc.description[language] and
\* doc.content.overview[language] throw a TypeError when the map is undefined
DocumentThrows(doc) ==
    \/ IsUndefined(doc.title)
    \/ IsUndefined(doc.description)
    \/ IsUndefined(doc.overview)

SearchDocumentsThrows(docs, q) ==
    /\ Trim(q) # Empty
    /\ \E i \in 1..Len(docs) : DocumentThrows(docs[i])

\* DataService.getCategoryById: TRUE when find() returns a category
HasCategory(categories, id) == \E i \in 1..Len(categories) : categories[i].id = id

\* calculateFuzzyScore with the threshold at 12 instead of 10
CalculateFuzzyScoreStrict(searchTerm, title, description, tags) ==
    LET titleScore == FuzzySearch(searchTerm, title) * 30
        descScore == FuzzySearch(searchTerm, description) * 20
        tagScore == MaxSeq([i \in 1..Len(tags) |-> FuzzySearch(searchTerm, tags[i]) * 25])
        fuzzyScore == titleScore + descScore + tagScore
    IN  IF fuzzyScore > 12 * Unit THEN fuzzyScore ELSE 0

\* DataService.calculateFuzzyScore (scaled by Unit)
CalculateFuzzyScore(searchTerm, title, description, tags) ==
    LET titleScore == FuzzySearch(searchTerm, title) * 30
        descScore == FuzzySearch(searchTerm, description) * 20
        tagScore == MaxSeq([i \in 1..Len(tags) |-> FuzzySearch(searchTerm, tags[i]) * 25])
        fuzzyScore == titleScore + descScore + tagScore
    IN  IF fuzzyScore > 10 * Unit THEN fuzzyScore ELSE 0

\* the score searchFeatures accumulates for one feature (scaled by Unit)
FeatureScore(feature, searchTerm, lang) ==
    LET title == Localized(feature.title, lang)
        description == Localized(feature.description, lang)
        details == Localized(feature.details, lang)
        tags == feature.tags
        examples == feature.examples
        titlePart ==
            IF Includes(ToLower(title), searchTerm)
            THEN 100 + (IF ToLower(title) = searchTerm THEN 50 ELSE 0) ELSE 0
        descPart == IF Includes(ToLower(description), searchTerm) THEN 80 ELSE 0
        tagPart == SumSeq([i \in 1..Len(tags) |->
            IF Includes(ToLower(tags[i]), searchTerm)
            THEN 60 + (IF ToLower(tags[i]) = searchTerm THEN 20 ELSE 0) ELSE 0])
        examplePart == SumSeq([i \in 1..Len(examples) |->
            IF Includes(ToLower(examples[i]), searchTerm) THEN 40 ELSE 0])
        detailsPart == IF Includes(ToLower(details), searchTerm) THEN 20 ELSE 0
        categoryPart ==
            IF HasCategory(FeatureCategories, feature.category)
               /\ Includes(ToLower(feature.category), searchTerm)
            THEN 30 ELSE 0
    IN  (titlePart + descPart + tagPart + examplePart + detailsPart + categoryPart) * Unit
        + CalculateFuzzyScore(searchTerm, title, description, tags)

(***************************************************************************)
(* Array.prototype.sort with the comparator (a, b) => b.score - a.score.   *)
(* The sort is stable (ECMAScript 2019 and later; the code base uses ?? and *)
(* ?., which are later than that).  Entries are <<record, score>> pairs.   *)
(***************************************************************************)
\* insert e after every entry the comparator does not order after it
RECURSIVE InsertByScore(_, _)
InsertByScore(sorted, e) ==
    IF sorted = << >> THEN <<e>>
    ELSE IF e[2] - Head(sorted)[2] > 0
         THEN <<e>> \o sorted
         ELSE <<Head(sorted)>> \o InsertByScore(Tail(sorted), e)

RECURSIVE InsertByScoreUnstable(_, _)
InsertByScoreUnstable(sorted, e) ==
    IF sorted = << >> THEN <<e>>
    ELSE IF e[2] - Head(sorted)[2] >= 0
         THEN <<e>> \o sorted
         ELSE <<Head(sorted)>> \o InsertByScoreUnstable(Tail(sorted), e)

RECURSIVE SortByScoreUnstable(_)
SortByScoreUnstable(entries) ==
    IF entries = << >> THEN << >>
    ELSE InsertByScoreUnstable(
            SortByScoreUnstable(SubSeq(entries, 1, Len(entries) - 1)),
            entries[Len(entries)])

RECURSIVE SortByScore(_)
SortByScore(entries) ==
    IF entries = << >> THEN << >>
    ELSE InsertByScore(SortByScore(SubSeq(entries, 1, Len(entries) - 1)),
                       entries[Len(entries)])

\* forEach + push: the entries with a positive score, in store order
RECURSIVE Scored(_, _)
Scored(entries, threshold) ==
    IF entries = << >> THEN << >>
    ELSE (IF Head(entries)[2] > threshold THEN <<Head(entries)>> ELSE << >>)
         \o Scored(Tail(entries), threshold)

\* .map(result => feature): drop the score
Unscored(entries) == [i \in 1..Len(entries) |-> entries[i][1]]

SearchFeaturesKeepZero(features, q, lang) ==
    IF q = Empty \/ Trim(q) = Empty THEN features
    ELSE LET searchTerm == Trim(ToLower(q))
             entries == [i \in 1..Len(features) |->
                            <<features[i], FeatureScore(features[i], searchTerm, lang)>>]
         IN  Unscored(SortByScore(Scored(entries, 0 - 1)))

\* DataService.searchFeatures
SearchFeatures(features, q, lang) ==
    IF q = Empty \/ Trim(q) = Empty THEN features
    ELSE LET searchTerm == Trim(ToLower(q))
             entries == [i \in 1..Len(features) |->
                            <<features[i], FeatureScore(features[i], searchTerm, lang)>>]
         IN  Unscored(SortByScore(Scored(entries, 0)))

\* Array.prototype.filter
Filter(seq, Keep(_)) ==
    LET kept == {i \in 1..Len(seq) : Keep(seq[i])}
    IN  [k \in 1..Cardinality(kept) |->
            seq[CHOOSE i \in kept : Cardinality({j \in kept : j <= i}) = k]]

\* the facet value 'all'
All == <<"a", "l", "l">>

\* the facets of filterFeatures, each applied to what the one before kept;
\* a facet that is missing (empty) or 'all' keeps everything
ByCategory(features, f) ==
    LET SameCategory(feature) == feature.category = f.category
    IN  IF f.category # Empty /\ f.category # All THEN Filter(features, SameCategory)
        ELSE features

ByStatus(features, f) ==
    LET SameStatus(feature) == feature.status = f.status
    IN  IF f.status # "" /\ f.status # "all" THEN Filter(features, SameStatus)
        ELSE features

ByTags(features, f) ==
    LET SomeTag(feature) ==
            \E i \in 1..Len(f.tags) : \E j \in 1..Len(feature.tags) :
                feature.tags[j] = f.tags[i]
    IN  IF Len(f.tags) > 0 THEN Filter(features, SomeTag) ELSE features

ByVersion(features, f) ==
    LET SameVersion(feature) == feature.version = f.version
    IN  IF f.version # Empty /\ f.version # All THEN Filter(features, SameVersion)
        ELSE features

\* filterFeatures with the first record it keeps left out
FilterFeaturesSkipFirst(features, f) ==
    LET kept == ByVersion(ByTags(ByStatus(ByCategory(features, f), f), f), f)
    IN  IF kept = << >> THEN kept ELSE Tail(kept)

\* filterFeatures with the status facet applied to the whole input and its
\* matches added to those of the category facet
FilterFeaturesEitherFacet(features, f) ==
    LET Either(feature) ==
            \/ feature.category = f.category
            \/ feature.status = f.status
    IN  IF f.category # All /\ f.status # "all"
        THEN ByVersion(ByTags(Filter(features, Either), f), f)
        ELSE ByVersion(ByTags(ByStatus(ByCategory(features, f), f), f), f)

\* DataService.filterFeatures
FilterFeatures(features, f) ==
    ByVersion(ByTags(ByStatus(ByCategory(features, f), f), f), f)

\* String.prototype.localeCompare on the alphabet used here: blank, digits,
\* lower-case letters, in that order; -1, 0 or 1
Collation == <<" ", "1", "2", "a", "b", "l", "x">>

CharRank(c) == CHOOSE i \in 1..Len(Collation) : Collation[i] = c

RECURSIVE LocaleCompare(_, _)
LocaleCompare(x, y) ==
    IF x = << >> THEN (IF y = << >> THEN 0 ELSE 0 - 1)
    ELSE IF y = << >> THEN 1
    ELSE IF CharRank(Head(x)) < CharRank(Head(y)) THEN 0 - 1
    ELSE IF CharRank(Head(x)) > CharRank(Head(y)) THEN 1
    ELSE LocaleCompare(Tail(x), Tail(y))

\* statusOrder[status] ?? 3
StatusOrder(status) ==
    IF status = "new" THEN 0 ELSE IF status = "beta" THEN 1
    ELSE IF status = "stable" THEN 2 ELSE 3

\* the comparator sortFeatures hands to Array.prototype.sort
CompareFeatures(a, b, sortBy, lang) ==
    LET byName == LocaleCompare(ToLower(Localized(a.title, lang)),
                                ToLower(Localized(b.title, lang)))
    IN  IF sortBy = "name" THEN byName
        ELSE IF sortBy = "category"
             THEN IF a.category # b.category THEN LocaleCompare(a.category, b.category)
                  ELSE byName
        ELSE IF sortBy = "status"
             THEN IF StatusOrder(a.status) # StatusOrder(b.status)
                  THEN StatusOrder(a.status) - StatusOrder(b.status)
                  ELSE byName
        ELSE IF sortBy = "version" THEN LocaleCompare(b.version, a.version)
        ELSE 0

\* the stable sort, by insertion: an element goes before the first one
\* that the comparator puts after it
RECURSIVE InsertFeature(_, _, _, _)
InsertFeature(sorted, e, sortBy, lang) ==
    IF sorted = << >> THEN <<e>>
    ELSE IF CompareFeatures(Head(sorted), e, sortBy, lang) > 0
         THEN <<e>> \o sorted
         ELSE <<Head(sorted)>> \o InsertFeature(Tail(sorted), e, sortBy, lang)

RECURSIVE InsertFeatureUnstable(_, _, _, _)
InsertFeatureUnstable(sorted, e, sortBy, lang) ==
    IF sorted = << >> THEN <<e>>
    ELSE IF CompareFeatures(Head(sorted), e, sortBy, lang) >= 0
         THEN <<e>> \o sorted
         ELSE <<Head(sorted)>> \o InsertFeatureUnstable(Tail(sorted), e, sortBy, lang)

\* sortFeatures with a sort that puts equal records in reverse order
RECURSIVE SortFeaturesUnstable(_, _, _)
SortFeaturesUnstable(features, sortBy, lang) ==
    IF features = << >> THEN << >>
    ELSE InsertFeatureUnstable(
            SortFeaturesUnstable(SubSeq(features, 1, Len(features) - 1), sortBy, lang),
            features[Len(features)], sortBy, lang)

\* DataService.sortFeatures
RECURSIVE SortFeatures(_, _, _)
SortFeatures(features, sortBy, lang) ==
    IF features = << >> THEN << >>
    ELSE InsertFeature(SortFeatures(SubSeq(features, 1, Len(features) - 1), sortBy, lang),
                       features[Len(features)], sortBy, lang)

(***************************************************************************)
(* DocumentService                                                         *)
(***************************************************************************)
\* this.categories of the DocumentService
DocCategories ==
    << [id |-> "guide", name |-> [en |-> <<"a", "b">>, zh |-> <<"b", "a">>], order |-> 2],
       [id |-> "ref", name |-> [en |-> <<"b", "b">>, zh |-> Empty], order |-> 1] >>

\* the name of the category getCategoryById finds, localized; Empty when
\* there is no such category (no score is added then)
CategoryName(categories, id, lang) ==
    IF \E i \in 1..Len(categories) : categories[i].id = id
    THEN Localized(
            categories[CHOOSE i \in 1..Len(categories) :
                          /\ categories[i].id = id
                          /\ \A j \in 1..(i - 1) : categories[j].id # id].name,
            lang)
    ELSE Empty

\* the score searchDocuments accumulates for one document
DocumentScore(doc, searchTerm, lang) ==
    LET title == Localized(doc.title, lang)
        description == Localized(doc.description, lang)
        overview == Localized(doc.overview, lang)
        tags == doc.tags
        titlePart ==
            IF Includes(ToLower(title), searchTerm)
            THEN 100 + (IF ToLower(title) = searchTerm THEN 50 ELSE 0) ELSE 0
        descPart == IF Includes(ToLower(description), searchTerm) THEN 80 ELSE 0
        overviewPart == IF Includes(ToLower(overview), searchTerm) THEN 60 ELSE 0
        tagPart == SumSeq([i \in 1..Len(tags) |->
            IF Includes(ToLower(tags[i]), searchTerm)
            THEN 40 + (IF ToLower(tags[i]) = searchTerm THEN 20 ELSE 0) ELSE 0])
        sectionPart == SumSeq([i \in 1..Len(doc.sections) |->
            IF Includes(ToLower(Localized(doc.sections[i], lang)), searchTerm)
            THEN 30 ELSE 0])
        categoryPart ==
            IF HasCategory(DocCategories, doc.category)
               /\ Includes(ToLower(CategoryName(DocCategories, doc.category, lang)), searchTerm)
            THEN 20 ELSE 0
    IN  (titlePart + descPart + overviewPart + tagPart + sectionPart + categoryPart) * Unit

\* DocumentService.searchDocuments
SearchDocuments(docs, q, lang) ==
    IF q = Empty \/ Trim(q) = Empty THEN docs
    ELSE LET searchTerm == Trim(ToLower(q))
             entries == [i \in 1..Len(docs) |->
                            <<docs[i], DocumentScore(docs[i], searchTerm, lang)>>]
         IN  Unscored(SortByScore(Scored(entries, 0)))

(***************************************************************************)
(* DocumentSearch: the documentation hub's query controller                *)
(***************************************************************************)
Languages == {"en", "zh"}

En(text) == [en |-> text, zh |-> Empty]

LangChars(lang) == IF lang = "en" THEN <<"e", "n">> ELSE <<"z", "h">>

\* documentService.documents: the loaded catalog, immutable for the session
Documents ==
    << [id |-> "d1", title |-> [en |-> <<"a", "b", "b">>, zh |-> <<"b", "a">>],
        description |-> En(Empty), overview |-> En(Empty), tags |-> << >>,
        sections |-> << >>, category |-> "guide"],
       [id |-> "d2", title |-> En(<<"A", "b">>),
        description |-> En(Empty), overview |-> En(Empty), tags |-> << >>,
        sections |-> << >>, category |-> "ref"],
       [id |-> "d3", title |-> En(<<"b">>),
        description |-> En(<<"a", "a", "b">>), overview |-> En(Empty), tags |-> << >>,
        sections |-> << >>, category |-> "ref"] >>

DocIds == {Documents[i].id : i \in 1..Len(Documents)}

CategoryIds == {DocCategories[i].id : i \in 1..Len(DocCategories)}

DocsOfCategory(c) == {Documents[i].id : i \in {k \in 1..Len(Documents) : Documents[k].category = c}}

InputIds == {"sidebar", "header"}

\* setTimeout(..., 300) in handleSearchInput
DebounceMs == 300

\* if (!query || query.length < 2) return;  and  trimmedQuery.length >= 2
MinQueryLength == 2

\* this.maxHistorySize
maxHistorySize == 10

MaxRecentSuggestions == 3

MaxDocumentSuggestions == 5

MaxCategorySuggestions == 2

MaxSuggestions == 8

NoTimer == [pending |-> FALSE, remaining |-> 0, query |-> Empty]

NoId == "none"

\* the style attribute an element has after  el.style.display = value
StyleAttr(value) == <<"display: ", value, ";">>

NoStyle == << >>

\* the value of el.style.display read back from the attribute
DisplayOf(attr) == IF attr = NoStyle THEN "" ELSE attr[2]

\* localStorage.getItem: null when nothing is stored, else the stored text
Missing == [kind |-> "missing"]

Item(text) == [kind |-> "text", text |-> text]

\* ---- JSON -------------------------------------------------------------
Quote == "\""

Backslash == "\\"

Digits == {"0", "1", "2", "3", "4", "5", "6", "7", "8", "9"}

\* a string literal without the escaping of quote and backslash
JSONQuoteRaw(str) == <<Quote>> \o str \o <<Quote>>

RECURSIVE JSONEscape(_)
JSONEscape(str) ==
    IF str = << >> THEN << >>
    ELSE (IF Head(str) \in {Quote, Backslash} THEN <<Backslash, Head(str)>>
          ELSE <<Head(str)>>) \o JSONEscape(Tail(str))

\* JSON.stringify of a string
JSONQuote(str) == <<Quote>> \o JSONEscape(str) \o <<Quote>>

RECURSIVE JSONJoin(_)
JSONJoin(history) ==
    IF history = << >> THEN << >>
    ELSE JSONQuote(Head(history))
         \o (IF Len(history) > 1 THEN <<",">> ELSE << >>)
         \o JSONJoin(Tail(history))

\* JSON.stringify of an array of strings
JSONStringify(history) == <<"[">> \o JSONJoin(history) \o <<"]">>

SyntaxError == [ok |-> FALSE, kind |-> "SyntaxError", items |-> << >>]

Parsed(type, items) == [ok |-> TRUE, kind |-> type, items |-> items]

\* a string literal read from text[i], the character after the opening quote
RECURSIVE ScanString(_, _, _)
ScanString(text, i, acc) ==
    IF i > Len(text) THEN [ok |-> FALSE, value |-> acc, next |-> i]
    ELSE IF text[i] = Quote THEN [ok |-> TRUE, value |-> acc, next |-> i + 1]
    ELSE IF text[i] = Backslash
         THEN IF i + 1 <= Len(text) /\ text[i + 1] \in {Quote, Backslash}
              THEN ScanString(text, i + 2, Append(acc, text[i + 1]))
              ELSE [ok |-> FALSE, value |-> acc, next |-> i]
         ELSE ScanString(text, i + 1, Append(acc, text[i]))

\* the elements of an array of strings read from text[i]
RECURSIVE ScanItems(_, _, _)
ScanItems(text, i, acc) ==
    IF i > Len(text) \/ text[i] # Quote THEN SyntaxError
    ELSE LET str == ScanString(text, i + 1, << >>)
         IN  IF ~str.ok \/ str.next > Len(text) THEN SyntaxError
             ELSE IF text[str.next] = "]"
                  THEN IF str.next = Len(text) THEN Parsed("array", Append(acc, str.value))
                       ELSE SyntaxError
             ELSE IF text[str.next] = ","
                  THEN ScanItems(text, str.next + 1, Append(acc, str.value))
                  ELSE SyntaxError

\* JSON.parse, for null, numbers, strings, {} and arrays of strings; any
\* other text is a SyntaxError
JSONParse(text) ==
    IF text = << >> THEN SyntaxError
    ELSE IF text = <<"n", "u", "l", "l">> THEN Parsed("null", << >>)
    ELSE IF \A i \in 1..Len(text) : text[i] \in Digits THEN Parsed("number", << >>)
    ELSE IF text = <<"{", "}">> THEN Parsed("object", << >>)
    ELSE IF text = <<"[", "]">> THEN Parsed("array", << >>)
    ELSE IF text[1] = Quote
         THEN LET str == ScanString(text, 2, << >>)
              IN  IF str.ok /\ str.next = Len(text) + 1 THEN Parsed("string", << >>)
                  ELSE SyntaxError
    ELSE IF text[1] = "[" THEN ScanItems(text, 2, << >>)
    ELSE SyntaxError

EmptyCache == [k \in {} |-> << >>]

\* ---- ModalComponent ---------------------------------------------------
NoFeature == "null"

\* the component after its constructor, over the overlay as the page has it
NewModal ==
    [isOpen |-> FALSE, currentFeature |-> NoFeature, display |-> "", ariaHidden |-> "true",
     showClass |-> FALSE, animateTimers |-> 0, hideTimers |-> 0]

\* show(feature)
ModalShow(m, feature) ==
    IF feature = NoFeature THEN m
    ELSE [m EXCEPT !.currentFeature = feature, !.display = "flex",
                   !.ariaHidden = "false", !.isOpen = TRUE,
                   !.animateTimers = @ + 1]

\* close(): the hiding itself is left to a timer of 250 ms
ModalClose(m) ==
    IF ~m.isOpen THEN m
    ELSE [m EXCEPT !.showClass = FALSE, !.hideTimers = @ + 1]

\* the callback close() set
ModalHide(m) ==
    [m EXCEPT !.display = "none", !.ariaHidden = "true", !.isOpen = FALSE,
              !.currentFeature = NoFeature, !.hideTimers = @ - 1]

\* the callback show() set
ModalAnimate(m) == [m EXCEPT !.showClass = TRUE, !.animateTimers = @ - 1]

\* the state the handlers work on, as one record
Now ==
    [currentLanguage |-> currentLanguage, searchCache |-> searchCache,
     searchHistory |-> searchHistory, historyType |-> historyType,
     localStorage |-> localStorage, quotaExceeded |-> quotaExceeded, thrown |-> FALSE,
     searchTimeout |-> searchTimeout, inputs |-> inputs,
     suggestionEls |-> suggestionEls, suggestionsDisplay |-> suggestionsDisplay,
     activeSuggestion |-> activeSuggestion, activeDocumentId |-> activeDocumentId,
     navItemStyle |-> navItemStyle, navCategoryStyle |-> navCategoryStyle,
     i18nLanguage |-> i18nLanguage, languageItem |-> languageItem,
     docsLanguage |-> docsLanguage, navLanguage |-> navLanguage, modal |-> modal,
     strayTimers |-> strayTimers,
     shown |-> [shown EXCEPT !.fresh = FALSE]]

Becomes(s) ==
    /\ currentLanguage' = s.currentLanguage
    /\ searchCache' = s.searchCache
    /\ searchHistory' = s.searchHistory
    /\ historyType' = s.historyType
    /\ localStorage' = s.localStorage
    /\ quotaExceeded' = s.quotaExceeded
    /\ thrown' = s.thrown
    /\ searchTimeout' = s.searchTimeout
    /\ inputs' = s.inputs
    /\ suggestionEls' = s.suggestionEls
    /\ suggestionsDisplay' = s.suggestionsDisplay
    /\ activeSuggestion' = s.activeSuggestion
    /\ activeDocumentId' = s.activeDocumentId
    /\ navItemStyle' = s.navItemStyle
    /\ navCategoryStyle' = s.navCategoryStyle
    /\ i18nLanguage' = s.i18nLanguage
    /\ languageItem' = s.languageItem
    /\ docsLanguage' = s.docsLanguage
    /\ navLanguage' = s.navLanguage
    /\ modal' = s.modal
    /\ strayTimers' = s.strayTimers
    /\ shown' = IF "shown" \in watch THEN s.shown ELSE shown
    /\ watch' = watch
    /\ UNCHANGED appVars

Take(seq, n) == SubSeq(seq, 1, IF Len(seq) < n THEN Len(seq) ELSE n)

\* ---- history -----------------------------------------------------------
\* an exception leaves the handler
Throw(s) == [s EXCEPT !.thrown = TRUE]

\* saveSearchHistory: a setItem that throws is caught and logged
SaveSearchHistory(s) ==
    IF s.quotaExceeded THEN s
    ELSE [s EXCEPT !.localStorage = Item(JSONStringify(s.searchHistory))]

\* loadSearchHistory: what this.searchHistory is after construction, given
\* the stored item; it stays the constructor's [] when nothing (or the empty
\* text) is stored and becomes [] when JSON.parse throws
LoadSearchHistory(item) ==
    IF item.kind = "missing" \/ item.text = << >> THEN Parsed("array", << >>)
    ELSE LET parsed == JSONParse(item.text)
         IN  IF parsed.ok THEN parsed ELSE Parsed("array", << >>)

\* the history after unshift without the removal of the earlier occurrence
HistoryAfterAddKeepEarlier(history, q) ==
    Take(<<q>> \o history, maxHistorySize)

\* the history after unshift without the slice to maxHistorySize
HistoryAfterAddUnbounded(history, q) ==
    LET NotQ(term) == term # q
    IN  <<q>> \o Filter(history, NotQ)

\* the history after addToSearchHistory(q)
HistoryAfterAdd(history, q) ==
    LET NotQ(term) == term # q
    IN  Take(<<q>> \o Filter(history, NotQ), maxHistorySize)

\* addToSearchHistory without the call of saveSearchHistory
AddToSearchHistoryUnsaved(s, q) ==
    IF s.historyType # "array" THEN Throw(s)
    ELSE [s EXCEPT !.searchHistory = HistoryAfterAdd(s.searchHistory, q)]

\* addToSearchHistory: this.searchHistory.filter is a TypeError unless the
\* history is an array
AddToSearchHistory(s, q) ==
    IF s.historyType # "array" THEN Throw(s)
    ELSE SaveSearchHistory([s EXCEPT !.searchHistory = HistoryAfterAdd(s.searchHistory, q)])

\* clearSearchHistory
ClearSearchHistory(s) ==
    SaveSearchHistory([s EXCEPT !.searchHistory = << >>, !.historyType = "array"])

\* ---- suggestions dropdown ----------------------------------------------
\* hideSuggestions
HideSuggestions(s) == [s EXCEPT !.suggestionsDisplay = "none", !.activeSuggestion = 0]

\* renderSuggestions: an empty list hides the container and leaves its children
RenderSuggestions(s, list) ==
    IF list = << >> THEN [s EXCEPT !.suggestionsDisplay = "none"]
    ELSE [s EXCEPT !.suggestionEls = list,
                   !.suggestionsDisplay = "block",
                   !.activeSuggestion = 0]

Suggestion(type, text, docId, categoryId) ==
    [type |-> type, text |-> text, docId |-> docId, categoryId |-> categoryId]

\* DocumentService.getAllCategories: sorted by order
RECURSIVE InsertByOrder(_, _)
InsertByOrder(sorted, c) ==
    IF sorted = << >> THEN <<c>>
    ELSE IF c.order - Head(sorted).order < 0
         THEN <<c>> \o sorted
         ELSE <<Head(sorted)>> \o InsertByOrder(Tail(sorted), c)

RECURSIVE SortByOrder(_)
SortByOrder(categories) ==
    IF categories = << >> THEN << >>
    ELSE InsertByOrder(SortByOrder(SubSeq(categories, 1, Len(categories) - 1)),
                       categories[Len(categories)])

GetAllCategories == SortByOrder(DocCategories)

\* the suggestions generateSearchSuggestions collects, before the slice
SuggestionsCollected(history, documents, categories, q, lang) ==
    LET searchTerm == ToLower(q)
        IsRecent(term) == Includes(ToLower(term), searchTerm)
        recentMatches == Take(Filter(history, IsRecent), MaxRecentSuggestions)
        TitleMatch(doc) == Includes(ToLower(OrElse(doc.title[lang], doc.title["en"])), searchTerm)
        titleMatches == Take(Filter(documents, TitleMatch), MaxDocumentSuggestions)
        NameMatch(cat) == Includes(ToLower(OrElse(cat.name[lang], cat.name["en"])), searchTerm)
        categoryMatches == Take(Filter(categories, NameMatch), MaxCategorySuggestions)
    IN  [i \in 1..Len(recentMatches) |->
            Suggestion("recent", recentMatches[i], NoId, NoId)]
        \o [i \in 1..Len(titleMatches) |->
            Suggestion("document",
                       OrElse(titleMatches[i].title[lang], titleMatches[i].title["en"]),
                       titleMatches[i].id, NoId)]
        \o [i \in 1..Len(categoryMatches) |->
            Suggestion("category",
                       <<"B", "r", "o", "w", "s", "e", " ">>
                           \o OrElse(categoryMatches[i].name[lang], categoryMatches[i].name["en"]),
                       NoId, categoryMatches[i].id)]

\* generateSearchSuggestions without the last slice
SuggestionsUncut(history, documents, categories, q, lang) ==
    SuggestionsCollected(history, documents, categories, q, lang)

\* generateSearchSuggestions, given the history, getAllDocuments() and
\* getAllCategories()
SuggestionsFor(history, documents, categories, q, lang) ==
    Take(SuggestionsCollected(history, documents, categories, q, lang), MaxSuggestions)

\* generateSearchSuggestions
GenerateSearchSuggestions(s, q) ==
    SuggestionsFor(s.searchHistory, Documents, GetAllCategories, q, s.currentLanguage)

\* showSearchSuggestions: generateSearchSuggestions calls
\* this.searchHistory.filter, a TypeError unless the history is an array
ShowSearchSuggestions(s, q) ==
    IF s.historyType # "array" THEN Throw(s)
    ELSE RenderSuggestions(s, GenerateSearchSuggestions(s, q))

\* showSearchResultsSuggestions
ShowSearchResultsSuggestions(s, results) ==
    RenderSuggestions(s,
        [i \in 1..Len(Take(results, MaxSuggestions)) |->
            Suggestion("search-result",
                       OrElse(results[i].title[s.currentLanguage], results[i].title["en"]),
                       results[i].id, NoId)])

\* showNoResults
ShowNoResults(s, q) == RenderSuggestions(s, <<Suggestion("no-results", q, NoId, NoId)>>)

\* showSearchError
ShowSearchError(s) == RenderSuggestions(s, <<Suggestion("error", Empty, NoId, NoId)>>)

\* ---- navigation tree ---------------------------------------------------
\* NavigationTree.showAllItems
ShowAllItems(s) ==
    [s EXCEPT !.navItemStyle = [d \in DocIds |-> StyleAttr("block")],
              !.navCategoryStyle = [c \in CategoryIds |-> StyleAttr("block")]]

\* NavigationTree.selectDocument
SelectDocument(s, docId) == [s EXCEPT !.activeDocumentId = docId]

\* NavigationTree.filterByCategory
FilterByCategory(s, categoryId) ==
    IF categoryId = "all" THEN ShowAllItems(s)
    ELSE [s EXCEPT !.navCategoryStyle =
            [c \in CategoryIds |->
                IF c = categoryId THEN StyleAttr("block") ELSE StyleAttr("none")]]

\* the selector '.nav-item[style="display: block"], .nav-item:not([style])'
MatchesVisibleSelector(attr) == attr = <<"display: ", "block">> \/ attr = NoStyle

\* filterNavigationTree
FilterNavigationTree(s, results) ==
    IF results = << >> THEN ShowAllItems(s)
    ELSE LET resultIds == {results[i].id : i \in 1..Len(results)}
             items == [d \in DocIds |->
                          IF d \in resultIds THEN StyleAttr("block") ELSE StyleAttr("none")]
             HasVisibleItems(c) ==
                 \E d \in DocsOfCategory(c) :
                     /\ MatchesVisibleSelector(items[d])
                     /\ (DisplayOf(items[d]) = "" \/ DisplayOf(items[d]) # "none")
         IN  [s EXCEPT !.navItemStyle = items,
                       !.navCategoryStyle =
                           [c \in CategoryIds |->
                               IF HasVisibleItems(c) THEN StyleAttr("block")
                               ELSE StyleAttr("none")]]

\* ---- search ------------------------------------------------------------
\* clearSearchInput
ClearSearchInput(s) == [s EXCEPT !.inputs = [i \in InputIds |-> Empty]]

\* clearSearchResults: hideSuggestions, then showAllDocuments
ClearSearchResults(s) == ShowAllItems(HideSuggestions(s))

\* clearSearch that leaves the text of the inputs
ClearSearchKeepsText(s) == ClearSearchResults(s)

\* clearSearch
ClearSearch(s) == ClearSearchResults(ClearSearchInput(s))

\* displaySearchResults that lists a single result like any other
DisplaySearchResultsAlwaysList(s0, results, q, fromCache) ==
    LET s == [s0 EXCEPT !.shown = [query |-> q, results |-> results,
                                   language |-> s0.currentLanguage, cached |-> fromCache,
                                   fresh |-> TRUE]]
    IN  IF Len(results) = 0 THEN ShowNoResults(s, q)
        ELSE ShowSearchResultsSuggestions(s, results)

\* displaySearchResults
DisplaySearchResults(s0, results, q, fromCache) ==
    LET s == [s0 EXCEPT !.shown = [query |-> q, results |-> results,
                                   language |-> s0.currentLanguage, cached |-> fromCache,
                                   fresh |-> TRUE]]
    IN  IF Len(results) = 0 THEN ShowNoResults(s, q)
        ELSE IF Len(results) = 1
        THEN ClearSearchInput(HideSuggestions(SelectDocument(s, results[1].id)))
        ELSE ShowSearchResultsSuggestions(s, results)

\* the cache key with the query left out
CacheKeyLanguageOnly(q, lang) == <<"-">> \o LangChars(lang)

\* `${query}-${this.currentLanguage}`
CacheKeyQueryOnly(q, lang) == q

CacheKey(q, lang) == q \o <<"-">> \o LangChars(lang)

\* performSearch
PerformSearch(s, q) ==
    IF q = Empty \/ Len(q) < MinQueryLength THEN s
    ELSE LET cacheKey == CacheKey(q, s.currentLanguage)
         IN  IF cacheKey \in DOMAIN s.searchCache
             THEN DisplaySearchResults(s, s.searchCache[cacheKey], q, TRUE)
             ELSE LET results == SearchDocuments(Documents, q, s.currentLanguage)
                      cached == [s EXCEPT !.searchCache =
                                    [k \in (DOMAIN s.searchCache) \cup {cacheKey} |->
                                        IF k = cacheKey THEN results ELSE s.searchCache[k]]]
                      added == AddToSearchHistory(cached, q)
                  IN  IF added.thrown
                      THEN ShowSearchError([added EXCEPT !.thrown = FALSE])
                      ELSE FilterNavigationTree(
                               DisplaySearchResults(added, results, q, FALSE), results)

\* DocumentSearch.setLanguage without the cache.clear()
SetLanguageKeepCache(s, lang) == [s EXCEPT !.currentLanguage = lang]

\* DocumentSearch.setLanguage
SetLanguage(s, lang) ==
    [s EXCEPT !.currentLanguage = lang, !.searchCache = EmptyCache]

\* NavigationTree.setLanguage: render() builds the tree again, its elements
\* without a style attribute
NavigationSetLanguage(s, lang) ==
    [s EXCEPT !.navLanguage = lang,
              !.navItemStyle = [d \in DocIds |-> NoStyle],
              !.navCategoryStyle = [c \in CategoryIds |-> NoStyle]]

\* ---- event handlers ---------------------------------------------------
\* what an assignment to a timer handle leaves behind: the timer the handle
\* referred to goes on running when it was not cancelled first
Stray(strays, handle) == IF handle.pending THEN strays \cup {handle} ELSE strays

\* a clearTimeout that cancels nothing
ClearSearchTimeoutNot(s) == s

\* clearTimeout(this.searchTimeout)
ClearSearchTimeout(s) == [s EXCEPT !.searchTimeout = NoTimer]

\* this.searchTimeout = setTimeout(() => this.performSearch(trimmedQuery), 300)
SetSearchTimeout(s, trimmedQuery) ==
    [s EXCEPT !.strayTimers = Stray(@, s.searchTimeout),
              !.searchTimeout = [pending |-> TRUE, remaining |-> DebounceMs,
                                 query |-> trimmedQuery]]

\* handleSearchInput with the suggestions left to the debounced search
HandleSearchInputNoSuggestions(s, text) ==
    LET trimmedQuery == Trim(text)
    IN  IF trimmedQuery = Empty
        THEN HideSuggestions(ShowAllItems(ClearSearchResults(s)))
        ELSE SetSearchTimeout(ClearSearchTimeout(s), trimmedQuery)

\* handleSearchInput
HandleSearchInput(s, text) ==
    LET trimmedQuery == Trim(text)
    IN  IF trimmedQuery = Empty
        THEN HideSuggestions(ShowAllItems(ClearSearchResults(s)))
        ELSE LET timed == SetSearchTimeout(ClearSearchTimeout(s), trimmedQuery)
             IN  IF Len(trimmedQuery) >= MinQueryLength
                 THEN ShowSearchSuggestions(timed, trimmedQuery)
                 ELSE timed

\* handleSuggestionClick
HandleSuggestionClick(s, el) ==
    LET acted == IF el.docId # NoId THEN SelectDocument(s, el.docId)
                 ELSE IF el.categoryId # NoId THEN FilterByCategory(s, el.categoryId)
                 ELSE s
    IN  ClearSearchInput(HideSuggestions(acted))

\* suggestion.action(), the click listener renderSuggestions puts on an element
SuggestionAction(s, el) ==
    IF el.type = "recent" THEN PerformSearch(s, el.text)
    ELSE IF el.type \in {"document", "search-result"} THEN SelectDocument(s, el.docId)
    ELSE IF el.type = "category" THEN FilterByCategory(s, el.categoryId)
    ELSE ClearSearch(s)

\* e.target.value handed to performSearch as it is
EnterQueryUntrimmed(value) == value

\* e.target.value.trim() in the Enter case of handleSearchKeydown
EnterQuery(value) == Trim(value)

\* navigateSuggestions that stops at both ends of the list
NavigateSuggestionsStops(s, direction) ==
    LET n == Len(s.suggestionEls)
        current == s.activeSuggestion
        nextIndex ==
            IF current = 0 THEN 1
            ELSE IF direction = "down"
                 THEN (IF current < n THEN current + 1 ELSE n)
                 ELSE (IF current > 1 THEN current - 1 ELSE 1)
    IN  IF n = 0 THEN s ELSE [s EXCEPT !.activeSuggestion = nextIndex]

\* navigateSuggestions
NavigateSuggestions(s, direction) ==
    LET n == Len(s.suggestionEls)
        current == s.activeSuggestion
        nextIndex ==
            IF current = 0 THEN 1
            ELSE IF direction = "down"
                 THEN (IF current < n THEN current + 1 ELSE 1)
                 ELSE (IF current > 1 THEN current - 1 ELSE n)
    IN  IF n = 0 THEN s ELSE [s EXCEPT !.activeSuggestion = nextIndex]

(***************************************************************************)
(* Events                                                                  *)
(***************************************************************************)
\* texts a visitor types
InputTexts ==
    { Empty, <<" ", " ">>, <<"a">>, <<"a", "b">>, <<" ", "a", "b">>, <<"b", "a">> }

\* what localStorage holds when the page is opened
StoredChoices == { Missing, Item(JSONStringify(<< <<"a", "b">> >>)) }

\* histories for the suggestions: none, two entries, five entries
SuggestStored ==
    { Item(JSONStringify(<< >>)),
      Item(JSONStringify(<< <<"b", "a">>, <<"a", "b">> >>)),
      Item(JSONStringify(<< <<"a", "b">>, <<"b", "b">>, <<"a">>, <<"b", "a">>, <<"b">> >>)) }

\* what 'claude-code-language' holds when the page is opened: nothing, a
\* supported language, or a language the site has no translation for
LanguageItems == { Missing, Item("en"), Item("zh"), Item("fr") }

\* what it may hold when something else wrote it: nothing, the empty text,
\* text that is not JSON, a cut-off array, null, a number, a string, an
\* object, and an array of strings
LoadChoices ==
    { Missing, Item(Empty), Item(<<"a", "b">>), Item(<<"[", Quote, "a", Quote>>),
      Item(<<"n", "u", "l", "l">>), Item(<<"7">>), Item(JSONQuote(<<"a", "b">>)),
      Item(<<"{", "}">>), Item(JSONStringify(<< <<"b">>, <<"a", "b">> >>)) }

\* what the liveness specification finds stored: nothing, or null
LiveStored == { Missing, Item(<<"n", "u", "l", "l">>) }

\* time advances in steps of TickMs
TickMs == 150

MaxExecuted == 2

Log(log, q) == IF Len(log) < MaxExecuted THEN Append(log, q) ELSE log

\* the handler that ran is recorded
Op(name) == lastOp' = IF "op" \in watch THEN name ELSE lastOp

\* fresh: displaySearchResults was called by the handler that ran last
NoShown ==
    [query |-> Empty, results |-> << >>, language |-> "en", cached |-> FALSE,
     fresh |-> FALSE]

InitDS ==
    /\ currentLanguage = "en"
    /\ searchCache = EmptyCache
    /\ localStorage \in StoredChoices \cup LoadChoices \cup SuggestStored
    /\ searchHistory = LoadSearchHistory(localStorage).items
    /\ historyType = LoadSearchHistory(localStorage).kind
    /\ quotaExceeded = FALSE
    /\ thrown = FALSE
    /\ searchTimeout = NoTimer
    /\ inputs = [i \in InputIds |-> Empty]
    /\ suggestionEls = << >>
    /\ suggestionsDisplay = "none"
    /\ activeSuggestion = 0
    /\ activeDocumentId = NoId
    /\ navItemStyle = [d \in DocIds |-> NoStyle]
    /\ navCategoryStyle = [c \in CategoryIds |-> NoStyle]
    /\ strayTimers = {}
    /\ sinceInput = DebounceMs
    /\ burstLast = Empty
    /\ executed = << >>
    /\ shown = NoShown
    /\ lastOp = "init"
    /\ pushed = << >>
    /\ before = << >>
    /\ watch \in SUBSET {"burst", "quiet", "shown", "op", "pushes", "capacity", "storage",
                         "languages"}
    /\ i18nLanguage = "en"
    /\ languageItem \in IF "languages" \in watch THEN LanguageItems ELSE {Missing}
    /\ docsLanguage = "en"
    /\ navLanguage = "en"
    /\ modal = NewModal

\* FilterComponent.filters after construction; filterFeatures also reads the
\* facets tags and version, which the component never sets
DefaultFilters ==
    [category |-> All, status |-> "all", sort |-> "name", tags |-> << >>, version |-> Empty]

NoDebounce == [pending |-> FALSE, query |-> Empty]

\* the SearchComponent after construction
NoSuggestions ==
    /\ suggestions = << >>
    /\ selectedSuggestion = -1
    /\ suggestionsShown = FALSE

\* the features application while it is not the one running
AppIdle ==
    /\ filters = DefaultFilters
    /\ filteredFeatures = << >>
    /\ currentQuery = Empty
    /\ debouncedSearch = NoDebounce
    /\ NoSuggestions

\* the service after init() has resolved
Loaded == initialized = TRUE /\ raised = "none"

\* the ranking variables while the controller runs
RankIdle ==
    /\ AppIdle
    /\ store = << >>
    /\ kind = "none"
    /\ query = Empty
    /\ language = "en"
    /\ ranked = << >>
    /\ Loaded
    /\ pc = "idle"

\* the input listener of one of the two inputs
InputEventOn(which, text) ==
        /\ text # inputs[which]
        /\ Becomes(HandleSearchInput([Now EXCEPT !.inputs[which] = text], text))
        /\ sinceInput' = IF "burst" \in watch THEN 0 ELSE sinceInput
        /\ burstLast' = IF "burst" \in watch THEN text ELSE burstLast
        /\ executed' = IF sinceInput >= DebounceMs \/ "quiet" \in watch
                       THEN << >> ELSE executed
        /\ Op(IF Trim(text) = Empty THEN "inputEmpty" ELSE "input")
        /\ UNCHANGED <<pushed, before>>
        /\ UNCHANGED rankVars

\* an input event: the visitor changes the text of the one input in use
InputEvent ==
    \E which \in InputIds, text \in InputTexts :
        /\ \A other \in InputIds \ {which} : inputs[other] = Empty
        /\ InputEventOn(which, text)

\* texts that hold the separator of the cache key and a language code
HyphenTexts ==
    { Empty, <<"a", "b">>, <<"a", "b", "-", "z", "h">>, <<"a", "b", "-", "e", "n">> }

\* an input event with such a text
InputEventHyphen ==
    \E which \in InputIds, text \in HyphenTexts :
        /\ \A other \in InputIds \ {which} : inputs[other] = Empty
        /\ InputEventOn(which, text)

\* an input event in either input, whatever the other one holds
InputEventEither ==
    \E which \in InputIds, text \in InputTexts : InputEventOn(which, text)

\* time passes; a timer that is due runs before time passes further
Tick ==
    /\ ~(searchTimeout.pending /\ searchTimeout.remaining = 0)
    /\ searchTimeout.pending \/ sinceInput < DebounceMs
    /\ watch' = watch
    /\ searchTimeout' =
          IF searchTimeout.pending
          THEN [searchTimeout EXCEPT !.remaining =
                   IF @ > TickMs THEN @ - TickMs ELSE 0]
          ELSE searchTimeout
    /\ sinceInput' = IF "burst" \notin watch THEN sinceInput
                     ELSE IF sinceInput + TickMs < DebounceMs THEN sinceInput + TickMs
                     ELSE DebounceMs
    /\ UNCHANGED <<rankVars, appVars, currentLanguage, searchCache, searchHistory,
                   localStorage, historyType, quotaExceeded, thrown,
                   inputs, suggestionEls, suggestionsDisplay, activeSuggestion,
                   activeDocumentId, navItemStyle, navCategoryStyle, strayTimers,
                   i18nLanguage, languageItem, docsLanguage, navLanguage, modal,
                   burstLast, executed, shown, lastOp, pushed, before>>

\* the debounce timer fires: the callback set by handleSearchInput
SearchTimeoutFires ==
    /\ searchTimeout.pending
    /\ searchTimeout.remaining = 0
    /\ Becomes(PerformSearch([Now EXCEPT !.searchTimeout = NoTimer], searchTimeout.query))
    /\ executed' = IF watch \cap {"burst", "quiet"} # {}
                      /\ Len(searchTimeout.query) >= MinQueryLength
                   THEN Log(executed, searchTimeout.query) ELSE executed
    /\ Op("timeout")
    /\ UNCHANGED <<rankVars, sinceInput, burstLast, pushed, before>>

\* handleSearchKeydown, Enter
KeyEnter ==
    \E which \in InputIds :
        /\ Becomes(IF activeSuggestion # 0
                   THEN HandleSuggestionClick(Now, suggestionEls[activeSuggestion])
                   ELSE PerformSearch(Now, EnterQuery(inputs[which])))
        /\ Op(IF activeSuggestion # 0 THEN "enterSuggestion" ELSE "enterSearch")
        /\ executed' = IF "quiet" \in watch /\ activeSuggestion = 0
                          /\ Len(EnterQuery(inputs[which])) >= MinQueryLength
                       THEN Log(executed, EnterQuery(inputs[which])) ELSE executed
        /\ UNCHANGED <<rankVars, sinceInput, burstLast, pushed, before>>

\* handleSearchKeydown, ArrowDown / ArrowUp
KeyArrow ==
    \E direction \in {"down", "up"} :
        /\ Becomes(NavigateSuggestions(Now, direction))
        /\ Op(IF direction = "down" THEN "ArrowDown" ELSE "ArrowUp")
        /\ UNCHANGED <<rankVars, sinceInput, burstLast, executed, pushed, before>>

\* Escape: handleSearchKeydown on the input, then the document listener
KeyEscape ==
    /\ Becomes(ClearSearch(ClearSearch(Now)))
    /\ Op("clearSearch")
    /\ UNCHANGED <<rankVars, sinceInput, burstLast, executed, pushed, before>>

\* a click on a suggestion of the open dropdown: the element's listener
\* runs its action, then the document listener runs handleSuggestionClick
ClickSuggestion ==
    \E i \in 1..Len(suggestionEls) :
        /\ suggestionsDisplay = "block"
        /\ Becomes(HandleSuggestionClick(SuggestionAction(Now, suggestionEls[i]),
                                         suggestionEls[i]))
        /\ Op("click")
        /\ UNCHANGED <<rankVars, sinceInput, burstLast, executed, pushed, before>>

\* the language switcher: DocsApp.setComponentLanguages
ChangeLanguage ==
    \E lang \in Languages :
        /\ Becomes(SetLanguage(NavigationSetLanguage(Now, lang), lang))
        /\ Op("setLanguage")
        /\ UNCHANGED <<rankVars, sinceInput, burstLast, executed, pushed, before>>

\* clearSearchHistory
CallClearSearchHistory ==
    /\ Becomes(ClearSearchHistory(Now))
    /\ Op("clearSearchHistory")
    /\ pushed' = << >>
    /\ UNCHANGED <<rankVars, sinceInput, burstLast, executed, before>>

\* The cache specification: searches reach performSearch through the debounce
\* timer, Enter and clicks on suggestions, and the language changes.
Init == localStorage \in StoredChoices /\ watch = {"shown", "op"} /\ InitDS /\ RankIdle

Next ==
    \/ InputEvent
    \/ Tick
    \/ SearchTimeoutFires
    \/ KeyEnter
    \/ ClickSuggestion
    \/ ChangeLanguage

Spec == Init /\ [][Next]_vars

\* The keyboard specification: typing, the timer, the arrow keys, Enter and
\* Escape over the suggestion dropdown.
InitKeys == localStorage \in StoredChoices /\ watch = {"shown", "op"} /\ InitDS /\ RankIdle

NextKeys ==
    \/ InputEvent
    \/ Tick
    \/ SearchTimeoutFires
    \/ KeyArrow
    \/ KeyEnter
    \/ KeyEscape

SpecKeys == InitKeys /\ [][NextKeys]_vars

\* The debounce specification: typing, time, the timer and Escape, with the
\* bursts of input events observed.
InitDebounce ==
    localStorage \in StoredChoices /\ watch = {"burst", "op"} /\ InitDS /\ RankIdle

NextDebounce ==
    \/ InputEvent
    \/ Tick
    \/ SearchTimeoutFires
    \/ KeyEscape

SpecDebounce == InitDebounce /\ [][NextDebounce]_vars

\* The quiet-period specification: typing, time, the timer and Enter, with
\* the searches run since the text last changed observed.
InitQuiet ==
    localStorage = Missing /\ watch = {"quiet", "op"} /\ InitDS /\ RankIdle

NextQuiet ==
    \/ InputEvent
    \/ Tick
    \/ SearchTimeoutFires
    \/ KeyEnter

SpecQuiet == InitQuiet /\ [][NextQuiet]_vars

\* The liveness specification: typing, time and the timer
\* over a stored history that is missing or was written by something else;
\* time goes on, and a timer that is due fires.
InitLive ==
    /\ RankIdle
    /\ localStorage \in LiveStored
    /\ watch = {"burst", "shown", "op"}
    /\ InitDS

NextLive ==
    \/ InputEvent
    \/ Tick
    \/ SearchTimeoutFires

\* the callback of the debounce timer is due
TimerDue == searchTimeout.pending /\ searchTimeout.remaining = 0

\* SearchTimeoutFires is enabled exactly when the timer is due and leaves it
\* not due, so WF_vars(SearchTimeoutFires) is []<>~TimerDue
SpecLive ==
    InitLive /\ [][NextLive]_vars /\ WF_vars(Tick) /\ []<>~TimerDue

\* The history specification: addToSearchHistory and clearSearchHistory
\* called in any order on a controller built over an empty store item.
HistoryQueries == { <<"a">>, <<"b">>, <<"c">> }

MaxPushes == 4

InitHistory ==
    /\ RankIdle
    /\ localStorage = Missing
    /\ watch = {"pushes", "op"}
    /\ InitDS

\* queries that JSON.stringify has to escape
StorageQueries == { <<"a">>, <<"a", Quote>>, <<Backslash>> }

\* The capacity specification pushes enough distinct queries to fill the
\* history: a query not in the history, or once more the oldest or the
\* second entry of the history.
CapacityQueries ==
    << <<"a">>, <<"b">>, <<"c">>, <<"d">>, <<"e">>, <<"f">>,
       <<"g">>, <<"h">>, <<"i">>, <<"j">>, <<"k">> >>

MaxRepeats == 2

Repeats(log) == Len(log) - Cardinality({log[i] : i \in 1..Len(log)})

\* the first of CapacityQueries that the history does not hold
NewQuery(history) ==
    CapacityQueries[CHOOSE i \in 1..Len(CapacityQueries) :
        /\ \A k \in 1..Len(history) : history[k] # CapacityQueries[i]
        /\ \A j \in 1..(i - 1) : \E k \in 1..Len(history) : history[k] = CapacityQueries[j]]

\* the queries the next addToSearchHistory call may be given
PushChoices ==
    IF "capacity" \in watch
    THEN IF Len(pushed) >= Len(CapacityQueries) + MaxRepeats THEN {}
         ELSE {NewQuery(searchHistory)}
              \cup (IF Len(searchHistory) >= 2 /\ Repeats(pushed) < MaxRepeats
                    THEN {searchHistory[2], searchHistory[Len(searchHistory)]}
                    ELSE {})
    ELSE IF Len(pushed) >= MaxPushes THEN {}
    ELSE IF "storage" \in watch THEN StorageQueries
    ELSE HistoryQueries

CallAddToSearchHistory ==
    \E q \in PushChoices :
        /\ Becomes(AddToSearchHistory(Now, q))
        /\ pushed' = Append(pushed, q)
        /\ before' = searchHistory
        /\ Op("addToSearchHistory")
        /\ UNCHANGED <<rankVars, sinceInput, burstLast, executed>>

NextHistory == CallAddToSearchHistory \/ CallClearSearchHistory

SpecHistory == InitHistory /\ [][NextHistory]_vars

InitCapacity ==
    /\ RankIdle
    /\ localStorage = Missing
    /\ watch = {"pushes", "op", "capacity"}
    /\ InitDS

SpecCapacity == InitCapacity /\ [][NextHistory]_vars

\* the page is opened again: new DocumentSearch(...) over the stored item
Construct(s) ==
    [currentLanguage |-> "en", searchCache |-> EmptyCache,
     searchHistory |-> LoadSearchHistory(s.localStorage).items,
     historyType |-> LoadSearchHistory(s.localStorage).kind,
     localStorage |-> s.localStorage, quotaExceeded |-> s.quotaExceeded, thrown |-> FALSE,
     searchTimeout |-> NoTimer, inputs |-> [i \in InputIds |-> Empty],
     suggestionEls |-> << >>, suggestionsDisplay |-> "none",
     activeSuggestion |-> 0, activeDocumentId |-> NoId,
     navItemStyle |-> [d \in DocIds |-> NoStyle],
     navCategoryStyle |-> [c \in CategoryIds |-> NoStyle],
     i18nLanguage |-> "en", languageItem |-> s.languageItem,
     docsLanguage |-> "en", navLanguage |-> "en", modal |-> NewModal,
     strayTimers |-> {},
     shown |-> NoShown]

Reopen ==
    /\ Becomes(Construct(Now))
    /\ Op("construct")
    /\ pushed' = << >>
    /\ before' = << >>
    /\ UNCHANGED <<rankVars, sinceInput, burstLast, executed>>

\* the storage fills up, or room is made: setItem starts or stops throwing
QuotaChanges ==
    /\ Becomes([Now EXCEPT !.quotaExceeded = ~quotaExceeded])
    /\ Op("quota")
    /\ UNCHANGED <<rankVars, sinceInput, burstLast, executed, pushed, before>>

\* The storage specification: the history calls, with writes that succeed
\* or fail, and the page opened again.
InitStorage ==
    /\ RankIdle
    /\ localStorage \in StoredChoices
    /\ watch = {"pushes", "op", "storage"}
    /\ InitDS

NextStorage ==
    \/ CallAddToSearchHistory
    \/ CallClearSearchHistory
    \/ Reopen
    \/ QuotaChanges

SpecStorage == InitStorage /\ [][NextStorage]_vars

\* The load specification: a controller built over whatever the storage
\* holds, then typing and the history calls.
InitLoad ==
    /\ RankIdle
    /\ localStorage \in LoadChoices
    /\ watch = {"pushes", "op"}
    /\ InitDS

NextLoad ==
    \/ InputEvent
    \/ CallAddToSearchHistory
    \/ CallClearSearchHistory

SpecLoad == InitLoad /\ [][NextLoad]_vars

(***************************************************************************)
(* Ranking specification: searchFeatures / searchDocuments called once on  *)
(* a store of two records and a query drawn from the sets below.           *)
(***************************************************************************)
\* queries: plain, upper case with a leading blank, one letter, blank only
ScoreQueries == { <<"a", "b">>, <<" ", "A", "b">>, <<"b">>, <<" ", " ">> }

TitleChoices ==
    { En(<<"A", "b">>), En(<<"a", "b", "b">>), En(<<"b", "a", "b">>),
      En(<<"b", " ", "a", "b">>), En(<<"a", " ", "b">>),
      [en |-> <<"b", "b">>, zh |-> <<"a", "b">>] }

DescriptionChoices == { En(Empty), En(<<"b", "a", "b">>), En(<<"a", " ", "b">>) }

TagChoices ==
    { << >>, << <<"b", "a", "b">> >>, << <<"a", " ", "b">> >>,
      << <<"a", "b">>, <<"b", "b">> >> }

\* features whose examples, details and category do not match "ab" ...
PlainFeatures ==
    { [id |-> 0, title |-> t, description |-> d, tags |-> g, details |-> En(Empty),
       examples |-> << >>, category |-> <<"b", "b">>] :
        t \in TitleChoices, d \in DescriptionChoices, g \in TagChoices }

\* ... and features whose examples, details and category do
RichFeatures ==
    { [id |-> 0, title |-> t, description |-> En(Empty), tags |-> << >>,
       details |-> En(<<"A", "b", "b">>),
       examples |-> << <<"a", "b">>, <<"b">> >>, category |-> c] :
        t \in TitleChoices, c \in { <<"a", "b">>, <<"a", "b", "b">> } }

FeatureChoices == PlainFeatures \cup RichFeatures

DocumentChoices ==
    { [id |-> 0, title |-> t, description |-> d, tags |-> g, overview |-> o.overview,
       sections |-> o.sections, category |-> o.category] :
        t \in TitleChoices,
        d \in { En(Empty), En(<<"b", "a", "b">>) },
        g \in { << >>, << <<"a", "b">>, <<"b", "a", "b">> >> },
        o \in { [overview |-> En(Empty), sections |-> << >>, category |-> "ref"],
                [overview |-> En(<<"a", "b", "b">>),
                 sections |-> << En(<<"a", "b">>), En(<<"b">>) >>,
                 category |-> "guide"] } }

\* the store <<a, b>> with ids by position
StoreOf(a, b) == << [a EXCEPT !.id = 1], [b EXCEPT !.id = 2] >>

InitScore ==
    /\ kind \in {"features", "documents"}
    /\ \/ /\ kind = "features"
          /\ \E a \in FeatureChoices, b \in FeatureChoices : store = StoreOf(a, b)
       \/ /\ kind = "documents"
          /\ \E a \in DocumentChoices, b \in DocumentChoices : store = StoreOf(a, b)
    /\ query \in ScoreQueries
    /\ language \in Languages
    /\ ranked = << >>
    /\ Loaded
    /\ pc = "call"
    /\ AppIdle
    /\ localStorage = Missing
    /\ watch = {}
    /\ InitDS

CallSearchFeatures ==
    /\ pc = "call"
    /\ kind = "features"
    /\ raised' = IF SearchFeaturesThrows(store, query) THEN "TypeError" ELSE "none"
    /\ ranked' = IF SearchFeaturesThrows(store, query) THEN << >>
                  ELSE SearchFeatures(store, query, language)
    /\ pc' = "done"
    /\ UNCHANGED <<store, kind, query, language, initialized, dsVars, appVars, obsVars, strayTimers>>

CallSearchDocuments ==
    /\ pc = "call"
    /\ kind = "documents"
    /\ raised' = IF SearchDocumentsThrows(store, query) THEN "TypeError" ELSE "none"
    /\ ranked' = IF SearchDocumentsThrows(store, query) THEN << >>
                  ELSE SearchDocuments(store, query, language)
    /\ pc' = "done"
    /\ UNCHANGED <<store, kind, query, language, initialized, dsVars, appVars, obsVars, strayTimers>>

NextScore == CallSearchFeatures \/ CallSearchDocuments

SpecScore == InitScore /\ [][NextScore]_vars

\* The fuzzy specification: Utils.fuzzySearch called with one needle on two
\* haystacks, short ones and one of seven characters.
FuzzyNeedles == { <<"a", "b">>, <<"A", "B">>, <<"b">>, <<"b", "a">> }

FuzzyHaystacks ==
    { Empty, <<"b">>, <<"a", "b">>, <<"A", "B">>, <<"b", "a">>, <<"b", "a", "b">>,
      <<"a", " ", "b">>, <<"b", "a", "a">>,
      <<"a", "b", "b", "b", "b", "b", "b">> }

InitFuzzy ==
    /\ kind = "fuzzy"
    /\ \E first \in FuzzyHaystacks, second \in FuzzyHaystacks : store = <<first, second>>
    /\ query \in FuzzyNeedles
    /\ language = "en"
    /\ ranked = << >>
    /\ Loaded
    /\ pc = "call"
    /\ AppIdle
    /\ localStorage = Missing
    /\ watch = {}
    /\ InitDS

CallFuzzySearch ==
    /\ pc = "call"
    /\ kind = "fuzzy"
    /\ ranked' = [i \in 1..Len(store) |-> FuzzySearch(query, store[i])]
    /\ pc' = "done"
    /\ UNCHANGED <<store, kind, query, language, initialized, raised,
                   dsVars, appVars, obsVars, strayTimers>>

SpecFuzzy == InitFuzzy /\ [][CallFuzzySearch]_vars

\* The threshold specification: calculateFuzzyScore called on a title, a
\* description and one tag, short ones and ones of seven characters, or
\* searchFeatures called on a store of two features.
InitThreshold ==
    \/ /\ kind = "threshold"
       /\ \E title \in FuzzyHaystacks, description \in FuzzyHaystacks,
             tag \in FuzzyHaystacks : store = <<title, description, tag>>
       /\ query \in FuzzyNeedles
       /\ language = "en"
       /\ ranked = << >>
       /\ Loaded
       /\ pc = "call"
       /\ AppIdle
       /\ localStorage = Missing
       /\ watch = {}
       /\ InitDS
    \/ InitScore /\ kind = "features"

CallCalculateFuzzyScore ==
    /\ pc = "call"
    /\ kind = "threshold"
    /\ ranked' = <<CalculateFuzzyScore(Trim(ToLower(query)), store[1], store[2],
                                       <<store[3]>>)>>
    /\ pc' = "done"
    /\ UNCHANGED <<store, kind, query, language, initialized, raised,
                   dsVars, appVars, obsVars, strayTimers>>

NextThreshold == CallCalculateFuzzyScore \/ CallSearchFeatures

SpecThreshold == InitThreshold /\ [][NextThreshold]_vars

(***************************************************************************)
(* Service specification: a search is requested of a service before or     *)
(* after its init(), whose data may hold a record without its title,       *)
(* description, details or overview map.                                   *)
(***************************************************************************)
ServiceFeatures ==
    { [id |-> 0, title |-> t, description |-> d, tags |-> << >>, details |-> x,
       examples |-> << >>, category |-> <<"b", "b">>] :
        t \in {En(<<"a", "b">>), Undefined},
        d \in {En(<<"b", "a", "b">>), Undefined},
        x \in {En(Empty), Undefined} }

ServiceDocuments ==
    { [id |-> 0, title |-> t, description |-> d, tags |-> << >>, overview |-> o,
       sections |-> << >>, category |-> "ref"] :
        t \in {En(<<"a", "b">>), Undefined},
        d \in {En(<<"b", "a", "b">>), Undefined},
        o \in {En(Empty), Undefined} }

\* features.json / documents.json: a well-formed record and any record
ServiceData ==
    IF kind = "features"
    THEN { StoreOf(a, b) : a \in {f \in ServiceFeatures : ~FeatureThrows(f)},
                           b \in ServiceFeatures }
         \cup { StoreOf(b, a) : a \in {f \in ServiceFeatures : ~FeatureThrows(f)},
                                b \in ServiceFeatures }
    ELSE { StoreOf(a, b) : a \in {f \in ServiceDocuments : ~DocumentThrows(f)},
                           b \in ServiceDocuments }
         \cup { StoreOf(b, a) : a \in {f \in ServiceDocuments : ~DocumentThrows(f)},
                                b \in ServiceDocuments }

\* the service as its constructor leaves it
InitService ==
    /\ kind \in {"features", "documents"}
    /\ store = << >>
    /\ initialized = FALSE
    /\ raised = "none"
    /\ query \in ScoreQueries
    /\ language \in Languages
    /\ ranked = << >>
    /\ pc = "call"
    /\ AppIdle
    /\ localStorage = Missing
    /\ watch = {}
    /\ InitDS

\* init() resolves: the data is loaded and initialized is set
LoadSucceeds ==
    /\ pc = "call"
    /\ ~initialized
    /\ store = << >>
    /\ store' \in ServiceData
    /\ initialized' = TRUE
    /\ UNCHANGED <<kind, query, language, ranked, pc, raised, dsVars, appVars, obsVars, strayTimers>>

\* DataService.init() rejects because loadCategories failed, after
\* loadFeatures has set this.features
LoadCategoriesFails ==
    /\ pc = "call"
    /\ kind = "features"
    /\ ~initialized
    /\ store = << >>
    /\ store' \in ServiceData
    /\ UNCHANGED <<kind, query, language, ranked, pc, initialized, raised,
                   dsVars, appVars, obsVars, strayTimers>>

NextService ==
    \/ LoadSucceeds
    \/ LoadCategoriesFails
    \/ CallSearchFeatures
    \/ CallSearchDocuments

SpecService == InitService /\ [][NextService]_vars

(***************************************************************************)
(* Facet specification: filterFeatures called on a store of two records,   *)
(* and again on its own result, and sortFeatures called on a store of      *)
(* three records.                                                          *)
(***************************************************************************)
FacetTitles == { En(<<"b">>), En(<<"A">>), [en |-> <<"a">>, zh |-> <<"b">>] }

FacetCategories == { <<"a", "b">>, <<"b", "b">> }

\* "old" and "gone" are not in statusOrder
FacetStatuses == { "beta", "old", "gone" }

FacetExtras ==
    { [tags |-> << >>, version |-> <<"1">>], [tags |-> << <<"x">> >>, version |-> <<"2">>] }

FacetFeature(t, c, st, x) ==
    [id |-> 0, title |-> t, description |-> En(Empty), tags |-> x.tags,
     details |-> En(Empty), examples |-> << >>, category |-> c, status |-> st,
     version |-> x.version]

\* the records filterFeatures is given
FilterChoices ==
    { FacetFeature(En(<<"b">>), c, st, x) :
        c \in FacetCategories, st \in FacetStatuses, x \in FacetExtras }

\* the records sortFeatures is given
SortChoices ==
    { FacetFeature(t, c, st,
                   [tags |-> << >>, version |-> IF st = "beta" THEN <<"2">> ELSE <<"1">>]) :
        t \in FacetTitles, c \in FacetCategories, st \in FacetStatuses }

\* filter states: those of the FilterComponent, and some with a tags or a
\* version facet
FacetFilters ==
    { [category |-> c, status |-> st, sort |-> "name", tags |-> x.tags, version |-> x.version] :
        c \in {All, <<"a", "b">>}, st \in {"all", "beta", "old"},
        x \in { [tags |-> << >>, version |-> Empty],
                [tags |-> << <<"x">> >>, version |-> Empty],
                [tags |-> << >>, version |-> <<"2">>] } }

KnownSortKeys == {"name", "category", "status", "version"}

\* "date" is a key sortFeatures does not know
SortKeys == KnownSortKeys \cup {"date"}

StoreOf3(a, b, c) == << [a EXCEPT !.id = 1], [b EXCEPT !.id = 2], [c EXCEPT !.id = 3] >>

InitFacets ==
    /\ kind \in {"filter", "sort"}
    /\ \/ /\ kind = "filter"
          /\ \E a \in FilterChoices, b \in FilterChoices : store = StoreOf(a, b)
          /\ filters \in FacetFilters
          /\ language = "en"
       \/ /\ kind = "sort"
          /\ \E a \in SortChoices, b \in SortChoices, c \in SortChoices :
                store = StoreOf3(a, b, c)
          /\ \E key \in SortKeys : filters = [DefaultFilters EXCEPT !.sort = key]
          /\ language \in Languages
    /\ query = Empty
    /\ ranked = << >>
    /\ Loaded
    /\ pc = "call"
    /\ filteredFeatures = << >>
    /\ currentQuery = Empty
    /\ debouncedSearch = NoDebounce
    /\ NoSuggestions
    /\ localStorage = Missing
    /\ watch = {}
    /\ InitDS

\* filterFeatures(store, filters), then filterFeatures(its result, filters)
CallFilterFeatures ==
    /\ kind = "filter"
    /\ pc \in {"call", "once"}
    /\ ranked' = FilterFeatures(IF pc = "call" THEN store ELSE ranked, filters)
    /\ pc' = IF pc = "call" THEN "once" ELSE "twice"
    /\ UNCHANGED <<store, kind, query, language, initialized, raised,
                   dsVars, appVars, obsVars, strayTimers>>

CallSortFeatures ==
    /\ kind = "sort"
    /\ pc = "call"
    /\ ranked' = SortFeatures(store, filters.sort, language)
    /\ pc' = "done"
    /\ UNCHANGED <<store, kind, query, language, initialized, raised,
                   dsVars, appVars, obsVars, strayTimers>>

NextFacets == CallFilterFeatures \/ CallSortFeatures

SpecFacets == InitFacets /\ [][NextFacets]_vars

(***************************************************************************)
(* The features application: ClaudeCodeFeaturesApp with its                *)
(* SearchComponent and FilterComponent, over a catalog of three features.  *)
(***************************************************************************)
\* this.features after loadFeatures
AppFeatures ==
    StoreOf3(
        FacetFeature(En(<<"b", "a", "b">>), <<"b", "b">>, "stable",
                     [tags |-> << >>, version |-> <<"1">>]),
        FacetFeature(En(<<"a", "b">>), <<"a", "b">>, "beta",
                     [tags |-> << >>, version |-> <<"2">>]),
        FacetFeature(En(<<"b">>), <<"b", "b">>, "new",
                     [tags |-> << >>, version |-> <<"1">>]))

\* the application's fields, as one record
App ==
    [features |-> store, filteredFeatures |-> filteredFeatures,
     currentQuery |-> currentQuery, debouncedSearch |-> debouncedSearch,
     filters |-> filters, currentLanguage |-> language,
     suggestions |-> suggestions, selectedSuggestion |-> selectedSuggestion,
     suggestionsShown |-> suggestionsShown, strayTimers |-> strayTimers]

\* applyCurrentFilters: the copy of the filters always has keys
ApplyCurrentFilters(a) ==
    [a EXCEPT !.filteredFeatures = FilterFeatures(a.filteredFeatures, a.filters)]

\* handleSearch
HandleSearch(a, q) ==
    ApplyCurrentFilters(
        [a EXCEPT !.filteredFeatures =
            IF Trim(q) = Empty THEN a.features
            ELSE SearchFeatures(a.features, q, a.currentLanguage)])

\* handleFilter without the search of the filtered list
HandleFilterNoSearch(a, f) ==
    [a EXCEPT !.filteredFeatures = FilterFeatures(a.features, f)]

\* handleFilter
HandleFilter(a, f) ==
    LET filtered == FilterFeatures(a.features, f)
    IN  [a EXCEPT !.filteredFeatures =
            IF a.currentQuery # Empty
            THEN SearchFeatures(filtered, a.currentQuery, a.currentLanguage)
            ELSE filtered]

\* commonTerms of SearchComponent.generateSuggestions
CommonTerms ==
    << <<"a", "b">>, <<"b", "a", "b">>, <<"a", "b", "b">>, <<"A", "b">>,
       <<"b", " ", "a", "b">>, <<"a", " ", "a", "b">>, <<"b", "a">> >>

\* .slice(0, 5) in generateSuggestions
MaxTerms == 5

\* SearchComponent.generateSuggestions
GenerateSuggestions(q) ==
    LET queryLower == ToLower(q)
        Matching(term) == Includes(ToLower(term), queryLower)
    IN  Take(Filter(CommonTerms, Matching), MaxTerms)

\* SearchComponent.renderSuggestions: one item per suggestion
SearchComponentRenderSuggestions(a) == [a EXCEPT !.selectedSuggestion = -1]

\* SearchComponent.showSuggestions
SearchComponentShowSuggestions(a) ==
    IF Len(a.suggestions) > 0 THEN [a EXCEPT !.suggestionsShown = TRUE] ELSE a

\* SearchComponent.hideSuggestions
SearchComponentHideSuggestions(a) ==
    [a EXCEPT !.suggestionsShown = FALSE, !.selectedSuggestion = -1]

\* SearchComponent.updateSuggestions
UpdateSuggestions(a, q) ==
    LET rendered == SearchComponentRenderSuggestions(
                        [a EXCEPT !.suggestions = GenerateSuggestions(q)])
    IN  IF Len(rendered.suggestions) > 0
        THEN SearchComponentShowSuggestions(rendered)
        ELSE SearchComponentHideSuggestions(rendered)

\* SearchComponent.performSearch: the suggestions, then the search callback
SearchComponentPerformSearch(a, q) ==
    HandleSearch(IF Len(q) >= MinQueryLength THEN UpdateSuggestions(a, q)
                 ELSE SearchComponentHideSuggestions(a),
                 q)

\* SearchComponent.selectSuggestion
SelectSuggestion(a, suggestion) ==
    SearchComponentPerformSearch(
        SearchComponentHideSuggestions([a EXCEPT !.currentQuery = suggestion]),
        suggestion)

\* SearchComponent.navigateSuggestions that stops at both ends of the list
SearchComponentNavigateStops(a, direction) ==
    [a EXCEPT !.selectedSuggestion = a.selectedSuggestion + direction]

\* SearchComponent.navigateSuggestions
SearchComponentNavigateSuggestions(a, direction) ==
    LET maxIndex == Len(a.suggestions) - 1
        moved == a.selectedSuggestion + direction
    IN  [a EXCEPT !.selectedSuggestion =
            IF moved < 0 THEN maxIndex
            ELSE IF moved > maxIndex THEN 0
            ELSE moved]

\* SearchComponent.handleKeydown
HandleKeydown(a, key) ==
    IF ~a.suggestionsShown THEN a
    ELSE IF key = "ArrowDown" THEN SearchComponentNavigateSuggestions(a, 1)
    ELSE IF key = "ArrowUp" THEN SearchComponentNavigateSuggestions(a, -1)
    ELSE IF key = "Enter"
         THEN (IF a.selectedSuggestion >= 0
               THEN SelectSuggestion(a, a.suggestions[a.selectedSuggestion + 1])
               ELSE SearchComponentHideSuggestions(a))
    ELSE IF key = "Escape" THEN SearchComponentHideSuggestions(a)
    ELSE a

\* the function Utils.debounce returns, called with args:
\* clearTimeout(timeout); timeout = setTimeout(later, wait)
Debounced(a, args) ==
    LET cleared == [a EXCEPT !.debouncedSearch = NoDebounce]
    IN  [cleared EXCEPT !.strayTimers = Stray(@, cleared.debouncedSearch),
                        !.debouncedSearch = [pending |-> TRUE, query |-> args]]

\* the input listener of the SearchComponent
SearchComponentInput(a, text) ==
    Debounced([a EXCEPT !.currentQuery = text], text)

\* SearchComponent.clear
SearchComponentClear(a) ==
    SearchComponentPerformSearch(
        SearchComponentHideSuggestions([a EXCEPT !.currentQuery = Empty]), Empty)

\* FilterComponent.updateFilter
UpdateFilter(a, filterType, value) ==
    LET changed == [a EXCEPT !.filters[filterType] = value]
    IN  HandleFilter(changed, changed.filters)

\* FilterComponent.clearAllFilters
FilterComponentClearAllFilters(a) ==
    LET reset == [a EXCEPT !.filters = DefaultFilters]
    IN  HandleFilter(reset, reset.filters)

\* ClaudeCodeFeaturesApp.clearAllFilters
ClearAllFilters(a) ==
    LET cleared == FilterComponentClearAllFilters(SearchComponentClear(a))
    IN  [cleared EXCEPT !.filteredFeatures = cleared.features]

AppBecomes(a, name) ==
    /\ filteredFeatures' = a.filteredFeatures
    /\ currentQuery' = a.currentQuery
    /\ debouncedSearch' = a.debouncedSearch
    /\ filters' = a.filters
    /\ suggestions' = a.suggestions
    /\ selectedSuggestion' = a.selectedSuggestion
    /\ suggestionsShown' = a.suggestionsShown
    /\ strayTimers' = a.strayTimers
    /\ lastOp' = name
    /\ UNCHANGED <<rankVars, dsVars, sinceInput, burstLast, executed, shown, pushed,
                   before, watch>>

AppTexts == { Empty, <<"a", "b">>, <<"b">>, <<"b", "a">>, <<"a", "a">> }

Keys == {"ArrowDown", "ArrowUp", "Enter", "Escape"}

FacetValues ==
    [category |-> {All, <<"a", "b">>, <<"b", "b">>},
     status |-> {"all", "beta", "stable"},
     sort |-> {"name", "status", "category"}]

InitApp ==
    /\ store = AppFeatures
    /\ kind = "app"
    /\ query = Empty
    /\ language = "en"
    /\ ranked = << >>
    /\ Loaded
    /\ pc = "idle"
    /\ filters = DefaultFilters
    /\ filteredFeatures = AppFeatures
    /\ currentQuery = Empty
    /\ debouncedSearch = NoDebounce
    /\ NoSuggestions
    /\ localStorage = Missing
    /\ watch = {"op"}
    /\ InitDS

\* the visitor changes the text of #search-input
AppInputEvent ==
    \E text \in AppTexts :
        /\ text # currentQuery
        /\ AppBecomes(SearchComponentInput(App, text), "input")

\* the debounce timer fires: later() runs performSearch with the last arguments
DebounceFires ==
    /\ debouncedSearch.pending
    /\ AppBecomes(SearchComponentPerformSearch([App EXCEPT !.debouncedSearch = NoDebounce],
                                               debouncedSearch.query),
                  IF lastOp = "clearAllFilters" THEN "clearThenSearch" ELSE "search")

\* a key is pressed in #search-input
SearchKeydown ==
    \E key \in Keys :
        /\ suggestionsShown
        /\ AppBecomes(HandleKeydown(App, key), key)

\* #search-input gets the focus
SearchFocus ==
    /\ ~suggestionsShown
    /\ suggestions # << >>
    /\ AppBecomes(SearchComponentShowSuggestions(App), "focus")

\* a click outside the input and the dropdown
ClickOutside ==
    /\ suggestionsShown
    /\ AppBecomes(SearchComponentHideSuggestions(App), "clickOutside")

\* the visitor picks a category or a status
ChangeFacet ==
    \E filterType \in {"category", "status"} :
        \E value \in FacetValues[filterType] :
            /\ value # filters[filterType]
            /\ AppBecomes(UpdateFilter(App, filterType, value), "updateFilter")

\* the visitor picks a sort order
ChangeSort ==
    \E value \in FacetValues["sort"] :
        /\ value # filters.sort
        /\ AppBecomes(UpdateFilter(App, "sort", value), "updateSort")

\* the clear button: the listener of the FilterComponent, then
\* ClaudeCodeFeaturesApp.clearAllFilters
ClickClearFilters ==
    AppBecomes(ClearAllFilters(FilterComponentClearAllFilters(App)), "clearAllFilters")

NextApp ==
    \/ AppInputEvent
    \/ DebounceFires
    \/ SearchKeydown
    \/ SearchFocus
    \/ ClickOutside
    \/ ChangeFacet
    \/ ChangeSort
    \/ ClickClearFilters

SpecApp == InitApp /\ [][NextApp]_vars

\* The commutation specification: handleSearch and handleFilter called on the
\* same feature list, query and filter state.
CommuteChoices ==
    { FacetFeature(t, c, st, [tags |-> << >>, version |-> <<"1">>]) :
        t \in { En(<<"a", "b">>), En(<<"b", "a", "b">>), En(<<"a", " ", "b">>) },
        c \in FacetCategories, st \in {"beta", "old"} }

CommuteQueries == { <<"a", "b">>, <<"b">>, <<" ", " ">> }

CommuteFilters ==
    { [DefaultFilters EXCEPT !.category = c, !.status = st] :
        c \in {All, <<"b", "b">>}, st \in {"all", "beta"} }

InitCommute ==
    /\ kind = "commute"
    /\ \E a \in CommuteChoices, b \in CommuteChoices, c \in CommuteChoices :
          store = StoreOf3(a, b, c)
    /\ query \in CommuteQueries
    /\ currentQuery = query
    /\ filters \in CommuteFilters
    /\ filteredFeatures = store
    /\ language = "en"
    /\ ranked = << >>
    /\ Loaded
    /\ pc = "call"
    /\ debouncedSearch = NoDebounce
    /\ NoSuggestions
    /\ localStorage = Missing
    /\ watch = {}
    /\ InitDS

\* the search callback and the filter callback, each run from this state
CallBothHandlers ==
    /\ pc = "call"
    /\ kind = "commute"
    /\ ranked' = <<HandleSearch(App, query).filteredFeatures,
                   HandleFilter(App, filters).filteredFeatures>>
    /\ pc' = "done"
    /\ UNCHANGED <<store, kind, query, language, initialized, raised,
                   dsVars, appVars, obsVars, strayTimers>>

SpecCommute == InitCommute /\ [][CallBothHandlers]_vars

\* The start of the features page: ClaudeCodeFeaturesApp.init up to the
\* point where the components exist, and the events they handle from then on.
\* new DataService(): the constructor's fields
NewDataService == [features |-> << >>, initialized |-> FALSE]

\* DataService.getAllFeatures: a copy of this.features
GetAllFeatures(service) == service.features

\* what ./data/features.json holds
Catalog == AppFeatures

\* the constructor of ClaudeCodeFeaturesApp, init() not yet past its first await
InitBoot ==
    /\ store = << >>
    /\ kind = "boot"
    /\ query = Empty
    /\ language = "en"
    /\ ranked = << >>
    /\ initialized = FALSE
    /\ raised = "none"
    /\ pc = "services"
    /\ filters = DefaultFilters
    /\ filteredFeatures = << >>
    /\ currentQuery = Empty
    /\ debouncedSearch = NoDebounce
    /\ NoSuggestions
    /\ localStorage = Missing
    /\ watch = {"op"}
    /\ InitDS

\* initializeServices resolves; initializeComponents, loadFeatures and
\* initializeEventListeners follow with no fetch between them, so no event is
\* handled in between: the service is the one initializeServices built, and
\* init() never calls its init()
InitCompletes ==
    /\ pc = "services"
    /\ pc' = "ready"
    /\ initialized' = NewDataService.initialized
    /\ store' = GetAllFeatures(NewDataService)
    /\ filteredFeatures' = GetAllFeatures(NewDataService)
    /\ lastOp' = "init"
    /\ UNCHANGED <<kind, query, language, ranked, raised, dsVars, strayTimers,
                   filters, currentQuery, debouncedSearch, suggestions,
                   selectedSuggestion, suggestionsShown,
                   sinceInput, burstLast, executed, shown, pushed, before, watch>>

\* i18nService.init() or setLanguage rejects: init() ends in its catch
\* before any component exists
InitFails ==
    /\ pc = "services"
    /\ pc' = "failed"
    /\ lastOp' = "initFailed"
    /\ UNCHANGED <<store, kind, query, language, ranked, initialized, raised,
                   dsVars, appVars, strayTimers,
                   sinceInput, burstLast, executed, shown, pushed, before, watch>>

NextBoot ==
    \/ InitCompletes
    \/ InitFails
    \/ pc = "ready" /\ AppInputEvent
    \/ pc = "ready" /\ DebounceFires
    \/ pc = "ready" /\ ChangeFacet
    \/ pc = "ready" /\ ChangeSort

SpecBoot == InitBoot /\ [][NextBoot]_vars

(***************************************************************************)
(* The two pages: the documentation hub with its DocumentSearch, or the    *)
(* features page with its SearchComponent, each with its keyboard.         *)
(***************************************************************************)
InitPages == InitKeys \/ InitApp

NextPages ==
    \/ kind = "none" /\ NextKeys
    \/ kind = "app" /\ NextApp

SpecPages == InitPages /\ [][NextPages]_vars

\* The timers specification: on the documentation page input events in both
\* inputs, in any order and whatever the other input holds, time and the
\* timer; on the features page input events and the debounced search.
InitTimers ==
    \/ localStorage = Missing /\ watch = {"op"} /\ InitDS /\ RankIdle
    \/ InitApp

NextTimers ==
    \/ kind = "none" /\ InputEventEither
    \/ kind = "none" /\ Tick
    \/ kind = "none" /\ SearchTimeoutFires
    \/ kind = "app" /\ AppInputEvent
    \/ kind = "app" /\ DebounceFires

SpecTimers == InitTimers /\ [][NextTimers]_vars

(***************************************************************************)
(* Suggestion specification: generateSearchSuggestions called once over a  *)
(* history, six documents and three categories.                            *)
(***************************************************************************)
SuggestTitles == { En(<<"a", "b">>), [en |-> <<"B">>, zh |-> <<"b", "a">>] }

SuggestDoc(id, t) ==
    [id |-> id, title |-> t, description |-> En(Empty), overview |-> En(Empty),
     tags |-> << >>, sections |-> << >>, category |-> "guide"]

SuggestIds == <<"d1", "d2", "d3", "d4", "d5", "d6">>

SuggestCategories ==
    << [id |-> "guide", name |-> En(<<"a", "b">>), order |-> 2],
       [id |-> "ref", name |-> En(<<"b", "b">>), order |-> 1],
       [id |-> "api", name |-> [en |-> <<"b">>, zh |-> <<"a">>], order |-> 3] >>

SuggestQueries == { <<"a">>, <<"B">>, <<"a", "b">> }

InitSuggest ==
    /\ kind = "suggest"
    /\ \E titles \in [1..Len(SuggestIds) -> SuggestTitles] :
          store = [i \in 1..Len(SuggestIds) |-> SuggestDoc(SuggestIds[i], titles[i])]
    /\ query \in SuggestQueries
    /\ language \in Languages
    /\ ranked = << >>
    /\ Loaded
    /\ pc = "call"
    /\ AppIdle
    /\ localStorage \in SuggestStored
    /\ watch = {}
    /\ InitDS

CallGenerateSearchSuggestions ==
    /\ kind = "suggest"
    /\ pc = "call"
    /\ ranked' = SuggestionsFor(searchHistory, store, SortByOrder(SuggestCategories),
                                query, language)
    /\ pc' = "done"
    /\ UNCHANGED <<store, kind, query, language, initialized, raised,
                   dsVars, appVars, obsVars, strayTimers>>

NextSuggest == CallGenerateSearchSuggestions

SpecSuggest == InitSuggest /\ [][NextSuggest]_vars

(***************************************************************************)
(* Properties of the ranking functions                                     *)
(***************************************************************************)
\* the term the records are scored against
SearchTerm == Trim(ToLower(query))

\* the score the called service gives a record of the store
RecordScore(r) ==
    IF kind = "features" THEN FeatureScore(r, SearchTerm, language)
    ELSE DocumentScore(r, SearchTerm, language)

Ranked == pc = "done" /\ SearchTerm # Empty

\* needle occurs in haystack in order, not necessarily contiguously
RECURSIVE IsSubsequence(_, _)
IsSubsequence(needle, haystack) ==
    IF needle = << >> THEN TRUE
    ELSE IF haystack = << >> THEN FALSE
    ELSE IF Head(needle) = Head(haystack)
         THEN IsSubsequence(Tail(needle), Tail(haystack))
         ELSE IsSubsequence(needle, Tail(haystack))

ContainsTerm(text) == Includes(ToLower(text), SearchTerm)

SubsequenceOnly(text) ==
    IsSubsequence(SearchTerm, ToLower(text)) /\ ~ContainsTerm(text)

NoSignal(text) == ~IsSubsequence(SearchTerm, ToLower(text))

\* C5: for a non-empty query the result of searchFeatures / searchDocuments
\* holds exactly the records whose total score is greater than 0, each once.
C5_ExactlyPositiveScores ==
    (pc = "done" /\ query # Empty) =>
        /\ \A i \in 1..Len(store) :
              (RecordScore(store[i]) > 0) <=> (\E j \in 1..Len(ranked) : ranked[j] = store[i])
        /\ Len(ranked) = Cardinality({i \in 1..Len(store) : RecordScore(store[i]) > 0})

C5_Witness ==
    /\ Ranked
    /\ Len(ranked) = 1
    /\ \E i \in 1..Len(store) : RecordScore(store[i]) = 0

\* C6: in a ranked result a record precedes another only with a higher
\* score, or with the same score and an earlier place in the store.
C6_RankOrder ==
    Ranked =>
        \A i \in 1..Len(ranked) : \A j \in (i + 1)..Len(ranked) :
            \/ RecordScore(ranked[i]) > RecordScore(ranked[j])
            \/ /\ RecordScore(ranked[i]) = RecordScore(ranked[j])
               /\ ranked[i].id < ranked[j].id

C6_Witness ==
    /\ Ranked
    /\ Len(ranked) = 2
    /\ RecordScore(ranked[1]) = RecordScore(ranked[2])
    /\ ranked[1].title # ranked[2].title

\* a feature whose only match signal is a substring match of its title
OnlyTitleSubstring(f) ==
    /\ ContainsTerm(Localized(f.title, language))
    /\ ToLower(Localized(f.title, language)) # SearchTerm
    /\ NoSignal(Localized(f.description, language))
    /\ NoSignal(Localized(f.details, language))
    /\ \A i \in 1..Len(f.tags) : NoSignal(f.tags[i])
    /\ \A i \in 1..Len(f.examples) : NoSignal(f.examples[i])
    /\ NoSignal(f.category)

TitleOnlyPair ==
    /\ kind = "features"
    /\ Ranked
    /\ OnlyTitleSubstring(store[1])
    /\ OnlyTitleSubstring(store[2])

TitleLen(f) == Len(Localized(f.title, language))

\* C7 as claimed: two features matched only by a title substring score the
\* same whatever the title lengths, and come out in store order.
C7_EqualWhateverLength ==
    TitleOnlyPair =>
        /\ RecordScore(store[1]) = RecordScore(store[2])
        /\ ranked = store

\* C7 amended: they score the same, and come out in store order, when the
\* titles have the same length; otherwise the shorter title scores strictly
\* higher and comes first in either store order.
C7_EqualForEqualLength ==
    TitleOnlyPair =>
        /\ TitleLen(store[1]) = TitleLen(store[2]) =>
              RecordScore(store[1]) = RecordScore(store[2]) /\ ranked = store
        /\ TitleLen(store[1]) < TitleLen(store[2]) =>
              RecordScore(store[1]) > RecordScore(store[2]) /\ ranked = store
        /\ TitleLen(store[1]) > TitleLen(store[2]) =>
              RecordScore(store[1]) < RecordScore(store[2])
              /\ ranked = <<store[2], store[1]>>

C7_Witness ==
    /\ TitleOnlyPair
    /\ TitleLen(store[1]) > TitleLen(store[2])
    /\ ranked = <<store[2], store[1]>>

\* features a and b are the same but for the named field
SameBut(a, b, field) ==
    /\ a[field] # b[field]
    /\ \A f \in (DOMAIN a) \ {field, "id"} : a[f] = b[f]

\* a's field holds the term as a substring, b's only as a subsequence
TitleCase(a, b) ==
    /\ SameBut(a, b, "title")
    /\ ContainsTerm(Localized(a.title, language))
    /\ SubsequenceOnly(Localized(b.title, language))

DescriptionCase(a, b) ==
    /\ SameBut(a, b, "description")
    /\ ContainsTerm(Localized(a.description, language))
    /\ SubsequenceOnly(Localized(b.description, language))

TagCase(a, b) ==
    /\ SameBut(a, b, "tags")
    /\ Len(a.tags) = Len(b.tags)
    /\ \E i \in 1..Len(a.tags) :
          /\ \A k \in (1..Len(a.tags)) \ {i} : a.tags[k] = b.tags[k]
          /\ ContainsTerm(a.tags[i])
          /\ SubsequenceOnly(b.tags[i])

\* C8: of two features that differ in one field only, the one whose field
\* holds the query as a substring scores strictly higher (and ranks first)
\* than the one whose field matches only as a non-contiguous subsequence.
C8_SubstringOutscoresSubsequence ==
    (kind = "features" /\ Ranked) =>
        \A i \in {1, 2} :
            LET a == store[i]
                b == store[3 - i]
            IN  (TitleCase(a, b) \/ DescriptionCase(a, b) \/ TagCase(a, b)) =>
                    /\ RecordScore(a) > RecordScore(b)
                    /\ ranked = <<a, b>>

C8_Witness ==
    /\ kind = "features"
    /\ Ranked
    /\ TagCase(store[2], store[1])
    /\ ranked = <<store[2], store[1]>>

(***************************************************************************)
(* Properties of filterFeatures and sortFeatures                           *)
(***************************************************************************)
\* C15: filterFeatures applied to its own result, with the same filter
\* state, returns that result again.
C15_FilterIdempotent ==
    (kind = "filter" /\ pc = "twice") => ranked = FilterFeatures(store, filters)

C15_Witness ==
    /\ kind = "filter"
    /\ pc = "twice"
    /\ Len(ranked) = 1
    /\ filters.category # All
    /\ filters.tags # << >>

\* what the facets category and status ask of a record
Wanted(feature) ==
    /\ filters.category # All => feature.category = filters.category
    /\ filters.status # "all" => feature.status = filters.status

\* a filter state with no other facet than those of the FilterComponent
ComponentFilters == filters.tags = << >> /\ filters.version = Empty

\* C16: filterFeatures returns exactly the records whose category equals
\* the category facet (unless 'all') and whose status equals the status
\* facet (unless 'all'), in the order of the input.
C16_FilterExact ==
    (kind = "filter" /\ pc = "once" /\ ComponentFilters) =>
        /\ \A i \in 1..Len(store) :
              Wanted(store[i]) <=> (\E j \in 1..Len(ranked) : ranked[j] = store[i])
        /\ \A j \in 1..Len(ranked) : \A k \in (j + 1)..Len(ranked) :
              ranked[j].id < ranked[k].id
        /\ Len(ranked) = Cardinality({i \in 1..Len(store) : Wanted(store[i])})

\* a store of a record that is not beta and one that is, filtered by beta
C16_Witness ==
    /\ kind = "filter"
    /\ pc = "once"
    /\ ComponentFilters
    /\ filters.category = All
    /\ filters.status = "beta"
    /\ store[1].status # "beta"
    /\ ranked = <<store[2]>>

\* sortFeatures returned the records it was given, each once
Sorted ==
    /\ kind = "sort"
    /\ pc = "done"
    /\ Len(ranked) = Len(store)
    /\ \A i \in 1..Len(store) : \E k \in 1..Len(ranked) : ranked[k] = store[i]

\* the place in the output of the record at place i of the input
PlaceOf(i) == CHOOSE k \in 1..Len(ranked) : ranked[k].id = store[i].id

\* the field a sort key sorts by
SortKey(feature) ==
    IF filters.sort = "name" THEN ToLower(Localized(feature.title, language))
    ELSE IF filters.sort = "category" THEN feature.category
    ELSE IF filters.sort = "status" THEN <<feature.status>>
    ELSE IF filters.sort = "version" THEN feature.version
    ELSE << >>

\* C18 as claimed: an unknown key leaves the order as it is, and for every
\* key the output is a permutation of the input in which records with equal
\* sort keys keep their input order.
C18_StableBySortKey ==
    (kind = "sort" /\ pc = "done") =>
        /\ Sorted
        /\ filters.sort \notin KnownSortKeys => ranked = store
        /\ \A i \in 1..Len(store) : \A j \in (i + 1)..Len(store) :
              SortKey(store[i]) = SortKey(store[j]) => PlaceOf(i) < PlaceOf(j)

\* C18 amended: an unknown key leaves the order as it is; for every key the
\* output is a permutation of the input, ordered by the comparator of the
\* key, in which records the comparator takes for equal keep their input
\* order; under 'category' and 'status' records with the same category (or
\* status rank) are ordered by title.
C18_StableByComparator ==
    (kind = "sort" /\ pc = "done") =>
        /\ Sorted
        /\ filters.sort \notin KnownSortKeys => ranked = store
        /\ \A k \in 1..(Len(ranked) - 1) :
              CompareFeatures(ranked[k], ranked[k + 1], filters.sort, language) <= 0
        /\ \A i \in 1..Len(store) : \A j \in (i + 1)..Len(store) :
              CompareFeatures(store[i], store[j], filters.sort, language) = 0
                  => PlaceOf(i) < PlaceOf(j)
        /\ \A i \in 1..Len(store) : \A j \in 1..Len(store) :
              ( /\ filters.sort \in {"category", "status"}
                /\ SortKey(store[i]) = SortKey(store[j])
                /\ LocaleCompare(ToLower(Localized(store[i].title, language)),
                                 ToLower(Localized(store[j].title, language))) < 0 )
                  => PlaceOf(i) < PlaceOf(j)

\* two records of one category whose titles are in reverse order
C18_Witness ==
    /\ Sorted
    /\ filters.sort = "category"
    /\ store[1].category = store[2].category
    /\ LocaleCompare(ToLower(Localized(store[1].title, language)),
                     ToLower(Localized(store[2].title, language))) > 0
    /\ PlaceOf(2) < PlaceOf(1)

(***************************************************************************)
(* Properties of the features application                                  *)
(***************************************************************************)
\* the catalog narrowed by the current query, then by the facets
Narrowed ==
    FilterFeatures(IF Trim(currentQuery) = Empty THEN store
                   ELSE SearchFeatures(store, currentQuery, language),
                   filters)

BurstOver ==
    /\ lastOp \notin {"init", "clearSearch"}
    /\ sinceInput >= DebounceMs
    /\ ~searchTimeout.pending

\* C1: a burst of input events less than 300 ms apart runs exactly one
\* debounced search once it ends, with the (trimmed) text of its last event,
\* and none for an earlier text of the burst.  (A search counts when
\* performSearch gets past its length guard.)
C1_OneSearchPerBurst ==
    /\ \A i \in 1..Len(executed) : executed[i] = Trim(burstLast)
    /\ Len(executed) <= 1
    /\ (BurstOver /\ Len(Trim(burstLast)) >= MinQueryLength) => Len(executed) = 1

\* C2: once the input is cleared (empty or blank text, Escape, clearSearch)
\* the controller is idle with no debounce timer running.
C2_ClearCancelsTimer ==
    lastOp \in {"inputEmpty", "clearSearch"} => ~searchTimeout.pending

\* the query and the language a cache key was built from
KeyQuery(key) == SubSeq(key, 1, Len(key) - 3)

KeyLanguage(key) == SubSeq(key, Len(key) - 1, Len(key))

\* C3: every cache entry was computed under the current language.
C3_CacheOfCurrentLanguage ==
    \A key \in DOMAIN searchCache :
        /\ KeyLanguage(key) = LangChars(currentLanguage)
        /\ searchCache[key] = SearchDocuments(Documents, KeyQuery(key), currentLanguage)

\* a search cached under "en", then the language changed to "zh"
C3_Witness ==
    /\ lastOp = "setLanguage"
    /\ currentLanguage = "zh"
    /\ shown.language = "en"
    /\ shown.query # Empty
    /\ ~shown.cached
    /\ DOMAIN searchCache = {}

\* C4: the results performSearch displays, computed or served from the
\* cache, are those of a fresh searchDocuments under the language of the time.
C4_CacheTransparent ==
    shown # NoShown =>
        shown.results = SearchDocuments(Documents, shown.query, shown.language)

C4_Witness ==
    /\ shown.cached
    /\ shown.language = "zh"
    /\ Len(shown.results) > 0
    /\ Cardinality(DOMAIN searchCache) > 1

Blank(text) == Trim(text) = Empty

\* C9: a blank query returns the whole store in store order, and the cache
\* never holds an entry for a blank query.
C9_NoBlankQueryCached ==
    /\ \A key \in DOMAIN searchCache : ~Blank(KeyQuery(key))
    /\ \A text \in InputTexts, lang \in Languages :
          Blank(text) => SearchDocuments(Documents, text, lang) = Documents

\* Enter pressed on an input holding two blanks
C9_Witness ==
    /\ lastOp = "enterSearch"
    /\ \E which \in InputIds : inputs[which] = <<" ", " ">>

\* position of a term in a history
IndexIn(history, term) == CHOOSE i \in 1..Len(history) : history[i] = term

Terms(history) == {history[i] : i \in 1..Len(history)}

\* C10: addToSearchHistory(q) puts q first, leaves no other occurrence of q,
\* and keeps the other entries in their order; "a","b","a","c" pushed onto
\* an empty history give ["c","a","b"].
C10_MoveToFront ==
    /\ lastOp = "addToSearchHistory" =>
          LET q == pushed[Len(pushed)]
          IN  /\ searchHistory[1] = q
              /\ \A i \in 2..Len(searchHistory) : searchHistory[i] # q
              /\ Terms(searchHistory) = Terms(before) \cup {q}
              /\ \A x \in Terms(before) \ {q} : \A y \in Terms(before) \ {q} :
                    IndexIn(before, x) < IndexIn(before, y) =>
                        IndexIn(searchHistory, x) < IndexIn(searchHistory, y)
    /\ pushed = << <<"a">>, <<"b">>, <<"a">>, <<"c">> >> =>
          searchHistory = << <<"c">>, <<"a">>, <<"b">> >>

C10_Witness ==
    /\ pushed = << <<"a">>, <<"b">>, <<"a">>, <<"c">> >>
    /\ searchHistory = << <<"c">>, <<"a">>, <<"b">> >>

\* C12: once performSearch(q) has displayed its results, from the cache or
\* computed, q is the first element of the search history.
C12_SearchRecorded ==
    shown # NoShown =>
        /\ searchHistory # << >>
        /\ searchHistory[1] = shown.query

\* C13: whatever the storage held, the history is a list after
\* loadSearchHistory and no later handler throws.
C13_HistoryAlwaysList == historyType = "array" /\ ~thrown

\* C14: after addToSearchHistory or clearSearchHistory with a write that
\* succeeds, the stored text is the array of the in-memory history and a
\* controller constructed over it starts with that history; with a write
\* that fails the history is changed all the same and nothing is thrown.
C14_HistoryPersisted ==
    lastOp \in {"addToSearchHistory", "clearSearchHistory"} =>
        /\ ~thrown
        /\ historyType = "array"
        /\ lastOp = "addToSearchHistory" =>
              searchHistory = HistoryAfterAdd(before, pushed[Len(pushed)])
        /\ lastOp = "clearSearchHistory" => searchHistory = << >>
        /\ ~quotaExceeded =>
              /\ localStorage.kind = "text"
              /\ JSONParse(localStorage.text) = Parsed("array", searchHistory)
              /\ Construct(Now).searchHistory = searchHistory
              /\ Construct(Now).historyType = "array"

\* a history with a quote and a backslash written to the storage
C14_Witness ==
    /\ lastOp = "addToSearchHistory"
    /\ ~quotaExceeded
    /\ searchHistory = << <<Backslash>>, <<"a", Quote>> >>
    /\ localStorage = Item(JSONStringify(searchHistory))

\* the suggestions of one type, in the order they were returned
OfType(type) ==
    LET IsType(sg) == sg.type = type
    IN  Filter(ranked, IsType)

TypeRank(type) ==
    IF type = "recent" THEN 1 ELSE IF type = "document" THEN 2
    ELSE IF type = "category" THEN 3 ELSE 4

Matches(text) == Includes(ToLower(text), ToLower(query))

DocTitle(doc) == OrElse(doc.title[language], doc.title["en"])

\* the place of a document in the store, of a category among the categories
DocPlace(id) == CHOOSE i \in 1..Len(store) : store[i].id = id

CategoryPlace(id) ==
    CHOOSE i \in 1..Len(SuggestCategories) : SortByOrder(SuggestCategories)[i].id = id

\* C20: generateSearchSuggestions returns at most 8 suggestions: at most 3
\* matches of the history, most recent first, then at most 5 title matches
\* in store order, then at most 2 category-name matches; each carries what
\* its action needs: the saved query, the record, or the category.
C20_SuggestionsShape ==
    (kind = "suggest" /\ pc = "done") =>
        LET recents == OfType("recent")
            docs == OfType("document")
            cats == OfType("category")
        IN  /\ Len(ranked) <= MaxSuggestions
            /\ Len(recents) <= MaxRecentSuggestions
            /\ Len(docs) <= MaxDocumentSuggestions
            /\ Len(cats) <= MaxCategorySuggestions
            /\ \A i \in 1..Len(ranked) : \A j \in (i + 1)..Len(ranked) :
                  TypeRank(ranked[i].type) <= TypeRank(ranked[j].type)
            /\ \A i \in 1..Len(ranked) : TypeRank(ranked[i].type) <= 3
            /\ \A i \in 1..Len(recents) :
                  /\ recents[i].text \in Terms(searchHistory)
                  /\ Matches(recents[i].text)
                  /\ \A j \in (i + 1)..Len(recents) :
                        IndexIn(searchHistory, recents[i].text)
                            < IndexIn(searchHistory, recents[j].text)
            /\ \A i \in 1..Len(docs) :
                  /\ \E k \in 1..Len(store) : store[k].id = docs[i].docId
                  /\ Matches(DocTitle(store[DocPlace(docs[i].docId)]))
                  /\ docs[i].text = DocTitle(store[DocPlace(docs[i].docId)])
                  /\ \A j \in (i + 1)..Len(docs) :
                        DocPlace(docs[i].docId) < DocPlace(docs[j].docId)
            /\ \A i \in 1..Len(cats) :
                  /\ \E k \in 1..Len(SuggestCategories) :
                        SuggestCategories[k].id = cats[i].categoryId
                  /\ \A j \in (i + 1)..Len(cats) :
                        CategoryPlace(cats[i].categoryId) < CategoryPlace(cats[j].categoryId)

\* more than 3 history matches, more than 5 title matches and a category
\* match: 3 and 5 are kept and the category is cut off
C20_Witness ==
    /\ kind = "suggest"
    /\ pc = "done"
    /\ Len(ranked) = MaxSuggestions
    /\ Len(OfType("recent")) = MaxRecentSuggestions
    /\ Len(OfType("document")) = MaxDocumentSuggestions
    /\ Cardinality({i \in 1..Len(searchHistory) : Matches(searchHistory[i])}) > MaxRecentSuggestions
    /\ Cardinality({i \in 1..Len(store) : Matches(DocTitle(store[i]))}) > MaxDocumentSuggestions
    /\ \E i \in 1..Len(SuggestCategories) :
          Matches(OrElse(SuggestCategories[i].name[language], SuggestCategories[i].name["en"]))

\* the place of the last push of a term in a log of pushes
LastPush(log, term) ==
    CHOOSE i \in 1..Len(log) :
        log[i] = term /\ \A j \in (i + 1)..Len(log) : log[j] # term

\* addToSearchHistory was just given a query the full history did not hold
PushedOntoFull ==
    /\ lastOp = "addToSearchHistory"
    /\ Len(before) = maxHistorySize
    /\ pushed[Len(pushed)] \notin Terms(before)

\* C11: the history built from an empty one by addToSearchHistory and
\* clearSearchHistory never holds more than 10 entries nor a query twice,
\* and a new query pushed onto a full history drops exactly the entry that
\* was pushed least recently.
C11_BoundedRecencyList ==
    /\ Len(searchHistory) <= maxHistorySize
    /\ \A i \in 1..Len(searchHistory) : \A j \in (i + 1)..Len(searchHistory) :
          searchHistory[i] # searchHistory[j]
    /\ PushedOntoFull =>
          LET earlier == SubSeq(pushed, 1, Len(pushed) - 1)
              dropped == Terms(before) \ Terms(searchHistory)
          IN  /\ Cardinality(dropped) = 1
              /\ Len(searchHistory) = maxHistorySize
              /\ \A x \in dropped : \A y \in Terms(before) \ dropped :
                    LastPush(earlier, x) < LastPush(earlier, y)

\* an 11th distinct query pushed after the first query had been pushed again
C11_Witness ==
    /\ PushedOntoFull
    /\ Repeats(pushed) > 0
    /\ pushed[1] \in Terms(searchHistory)
    /\ Cardinality(Terms(pushed)) = maxHistorySize + 1
(***************************************************************************)
(* Properties of the keyboard and of the suggestion dropdown               *)
(***************************************************************************)
\* a step that is an input event, and the text it carries
InputStep == inputs' # inputs /\ lastOp' \in {"input", "inputEmpty"}

TypedText == inputs'[CHOOSE w \in InputIds : inputs'[w] # inputs[w]]

\* C21: on an input event whose trimmed text has at least 2 characters the
\* suggestions for that text are generated and rendered in the step of the
\* keystroke, while the debounced search is still 300 ms away and no search
\* has run; for a shorter trimmed text nothing is generated.
C21_SuggestionsImmediate ==
    [][InputStep =>
        LET text == Trim(TypedText)
            generated == SuggestionsFor(searchHistory, Documents, GetAllCategories,
                                        text, currentLanguage)
        IN  /\ Len(text) >= MinQueryLength =>
                  /\ generated # << >> =>
                        /\ suggestionEls' = generated
                        /\ suggestionsDisplay' = "block"
                  /\ generated = << >> => suggestionsDisplay' = "none"
                  /\ searchTimeout' = [pending |-> TRUE, remaining |-> DebounceMs,
                                        query |-> text]
                  /\ searchCache' = searchCache
                  /\ searchHistory' = searchHistory
            /\ Len(text) < MinQueryLength =>
                  /\ suggestionEls' = suggestionEls
                  /\ text # Empty => suggestionsDisplay' = suggestionsDisplay
      ]_vars

\* "ab" has just been typed: its suggestions are open and the search is
\* 300 ms away
C21_Witness ==
    /\ lastOp = "input"
    /\ \E w \in InputIds :
          /\ Len(Trim(inputs[w])) >= MinQueryLength
          /\ suggestionEls = SuggestionsFor(searchHistory, Documents, GetAllCategories,
                                            Trim(inputs[w]), currentLanguage)
          /\ searchTimeout = [pending |-> TRUE, remaining |-> DebounceMs,
                              query |-> Trim(inputs[w])]
    /\ suggestionEls # << >>
    /\ suggestionsDisplay = "block"

\* a step of the documentation hub that is the press of an arrow key
ArrowStep(key) == kind = "none" /\ lastOp' = key /\ searchTimeout' = searchTimeout

\* a step of the features page that is the press of an arrow key
SearchArrowStep(key) == kind = "app" /\ lastOp' = key /\ suggestionsShown

\* C22: the arrow keys move the highlight circularly: down from the last
\* suggestion to the first, up from the first to the last, and the
\* highlight stays on one of the n suggestions; in the SearchComponent
\* selectedSuggestion stays within -1 .. suggestions.length - 1.
C22_NavigationWraps ==
    [][/\ \A key \in {"ArrowDown", "ArrowUp"} :
             (ArrowStep(key) /\ Len(suggestionEls) > 0) =>
                 LET n == Len(suggestionEls)
                 IN  /\ suggestionEls' = suggestionEls
                     /\ activeSuggestion' \in 1..n
                     /\ (key = "ArrowDown" /\ activeSuggestion = n) =>
                            activeSuggestion' = 1
                     /\ (key = "ArrowUp" /\ activeSuggestion = 1) =>
                            activeSuggestion' = n
                     /\ (key = "ArrowDown" /\ activeSuggestion \in 1..(n - 1)) =>
                            activeSuggestion' = activeSuggestion + 1
                     /\ (key = "ArrowUp" /\ activeSuggestion \in 2..n) =>
                            activeSuggestion' = activeSuggestion - 1
       /\ \A key \in {"ArrowDown", "ArrowUp"} :
             SearchArrowStep(key) =>
                 LET n == Len(suggestions)
                 IN  /\ suggestions' = suggestions
                     /\ selectedSuggestion' \in 0..(n - 1)
                     /\ (key = "ArrowDown" /\ selectedSuggestion = n - 1) =>
                            selectedSuggestion' = 0
                     /\ (key = "ArrowUp" /\ selectedSuggestion = 0) =>
                            selectedSuggestion' = n - 1
       /\ selectedSuggestion' \in -1..(Len(suggestions') - 1)
      ]_vars

\* ArrowUp has moved the highlight from the first of several suggestions to
\* the last (with no highlight, either arrow highlights the first)
C22_Witness ==
    /\ kind = "none"
    /\ lastOp = "ArrowUp"
    /\ Len(suggestionEls) >= 2
    /\ activeSuggestion = Len(suggestionEls)

\* a step that is Enter pressed while a suggestion is highlighted
EnterOnSuggestion ==
    /\ kind = "none"
    /\ lastOp' = "enterSuggestion"
    /\ activeSuggestion # 0
    /\ searchTimeout' = searchTimeout

\* C23: Enter on the highlighted suggestion does what the suggestion's
\* action does: a recent-history suggestion searches for its saved query
\* again, a document suggestion (or search result) selects its document, a
\* category suggestion shows that category only.
C23_EnterActivates ==
    [][EnterOnSuggestion =>
        LET el == suggestionEls[activeSuggestion]
        IN  /\ el.type = "recent" =>
                  /\ shown'.fresh
                  /\ shown'.query = el.text
            /\ el.type \in {"document", "search-result"} =>
                  activeDocumentId' = el.docId
            /\ el.type = "category" =>
                  \A c \in CategoryIds :
                      DisplayOf(navCategoryStyle'[c]) = "block" <=> c = el.categoryId
      ]_vars

\* every node of the navigation tree is displayed
TreeShown ==
    /\ \A d \in DocIds : DisplayOf(navItemStyle[d]) \in {"", "block"}
    /\ \A c \in CategoryIds : DisplayOf(navCategoryStyle[c]) \in {"", "block"}

\* C24: after Escape both search inputs are empty, the suggestion list is
\* closed with no suggestion highlighted, and every node of the navigation
\* tree is displayed, whatever the state Escape was pressed in.
C24_EscapeClears ==
    lastOp = "clearSearch" =>
        /\ \A i \in InputIds : inputs[i] = Empty
        /\ suggestionsDisplay = "none"
        /\ activeSuggestion = 0
        /\ TreeShown

\* Escape was pressed after a search had put its results in the dropdown
\* and filtered the tree, with the next search already scheduled
C24_Witness ==
    /\ lastOp = "clearSearch"
    /\ Len(shown.results) >= 2
    /\ ~shown.cached
    /\ \E i \in 1..Len(suggestionEls) : suggestionEls[i].type = "search-result"
    /\ searchTimeout.pending
    /\ \A i \in InputIds : inputs[i] = Empty
    /\ TreeShown

(***************************************************************************)
(* Properties of the display of search results                             *)
(***************************************************************************)
\* the rows of a result list: one per result, at most 8
ResultRows(results, lang) ==
    [i \in 1..Min({Len(results), MaxSuggestions}) |->
        Suggestion("search-result", OrElse(results[i].title[lang], results[i].title["en"]),
                   results[i].id, NoId)]

\* the dropdown is open, unless the search was started by a click on a
\* suggestion, which closes the dropdown after the suggestion has acted
OpenUnlessClicked == lastOp # "click" => suggestionsDisplay = "block"

\* C25: a search that resolves with exactly one result selects that document
\* and renders no result list; with no result it renders the "no results"
\* entry for the query, not an error; with two or more it renders the list.
C25_DisplayByCount ==
    shown.fresh =>
        LET results == shown.results
        IN  /\ Len(results) = 0 =>
                  /\ suggestionEls = <<Suggestion("no-results", shown.query, NoId, NoId)>>
                  /\ OpenUnlessClicked
            /\ Len(results) = 1 =>
                  /\ activeDocumentId = results[1].id
                  /\ suggestionsDisplay = "none"
                  /\ suggestionEls # ResultRows(results, shown.language)
                  /\ \A i \in InputIds : inputs[i] = Empty
            /\ Len(results) >= 2 =>
                  /\ suggestionEls = ResultRows(results, shown.language)
                  /\ OpenUnlessClicked

\* a search has resolved with exactly one result and its document is selected
C25_Witness ==
    /\ shown.fresh
    /\ Len(shown.results) = 1
    /\ activeDocumentId = shown.results[1].id
    /\ suggestionsDisplay = "none"

(***************************************************************************)
(* Properties of the navigation tree under a search                        *)
(***************************************************************************)
ResultIds == {shown.results[i].id : i \in 1..Len(shown.results)}

\* the node's own display, as set by filterNavigationTree and showAllItems
ItemVisible(d) == DisplayOf(navItemStyle[d]) # "none"

CategoryVisible(c) == DisplayOf(navCategoryStyle[c]) # "none"

\* C26: after a search that resolved with two or more results, computed or
\* served from the cache, the document nodes displayed in the navigation
\* tree are exactly the documents of the result.
C26_TreeShowsResults ==
    (shown.fresh /\ Len(shown.results) >= 2) =>
        \A d \in DocIds : ItemVisible(d) <=> d \in ResultIds

\* C27: once filterNavigationTree has been applied, a category node is
\* hidden exactly when every one of its document nodes is hidden.
C27_CategoryHiddenIffEmpty ==
    (shown.fresh /\ ~shown.cached) =>
        \A c \in CategoryIds :
            ~CategoryVisible(c) <=> (\A d \in DocsOfCategory(c) : ~ItemVisible(d))

(***************************************************************************)
(* Properties of the services                                              *)
(***************************************************************************)
\* C28: a search requested of a service that is not initialized (before
\* init(), or after an init() that failed) is refused with a NotReadyError.
C28_RefusedUntilLoaded ==
    (kind \in {"features", "documents"} /\ pc = "done" /\ ~initialized) =>
        raised = "NotReadyError"

\* the records of the store that have all their maps
WellFormed ==
    LET Whole(r) == IF kind = "features" THEN ~FeatureThrows(r) ELSE ~DocumentThrows(r)
    IN  Filter(store, Whole)

\* C29: a record without its title, description or content map does not
\* abort the search: it is left out, and the matching well-formed records
\* are returned in rank order.
C29_MalformedSkipped ==
    (kind \in {"features", "documents"} /\ pc = "done" /\ initialized
        /\ Trim(query) # Empty /\ WellFormed # store) =>
        /\ raised = "none"
        /\ ranked = IF kind = "features"
                     THEN SearchFeatures(WellFormed, query, language)
                     ELSE SearchDocuments(WellFormed, query, language)

\* the searches that are scheduled and will still run: the one a handle of
\* the controller refers to, and the strays
PendingSearches ==
    Cardinality(strayTimers)
    + (IF searchTimeout.pending THEN 1 ELSE 0)
    + (IF debouncedSearch.pending THEN 1 ELSE 0)

\* C30: at every moment at most one debounced search is pending per
\* controller: a keystroke that schedules a search cancels the one scheduled
\* before, also when the keystrokes alternate between the sidebar input and
\* the header input of DocumentSearch.
C30_OnePendingSearch == PendingSearches <= 1

\* both inputs of the documentation page hold a query, no search has run
\* yet, and the one timer pending is the one of the last keystroke, in the
\* header input: it replaced the timer of the sidebar keystroke
C30_Witness ==
    /\ kind = "none"
    /\ lastOp = "input"
    /\ Len(Trim(inputs["sidebar"])) >= MinQueryLength
    /\ Len(Trim(inputs["header"])) >= MinQueryLength
    /\ Trim(inputs["sidebar"]) # Trim(inputs["header"])
    /\ searchCache = EmptyCache
    /\ searchTimeout = [pending |-> TRUE, remaining |-> DebounceMs,
                        query |-> Trim(inputs["header"])]
    /\ PendingSearches = 1

\* the text of the input in use
CurrentText ==
    IF inputs["sidebar"] # Empty THEN inputs["sidebar"] ELSE inputs["header"]

\* how often performSearch got past its length guard for the current text
\* since the text last changed
RunsForText ==
    Cardinality({i \in 1..Len(executed) : executed[i] = Trim(CurrentText)})

\* C31: between two consecutive changes of the input text performSearch runs
\* at most once for that text, also when Enter is pressed with nothing
\* highlighted while the debounce timer for the same text is pending.
C31_OneSearchPerQuietPeriod == RunsForText <= 1

\* the handler that ran last is the search callback or the filter callback
\* of the features application
EventHandled == lastOp \in {"search", "clearThenSearch", "updateFilter", "updateSort"}

\* C32: by the time ClaudeCodeFeaturesApp handles a search or a filter event
\* the DataService has fetched the catalog (initialized is true) and
\* app.features is the fetched feature collection.
C32_LoadedBeforeEvents ==
    (kind = "boot" /\ EventHandled) => (initialized = TRUE /\ store = Catalog)

\* an input event has just left the text in the input
JustTyped(text) == lastOp = "input" /\ sinceInput = 0 /\ burstLast = text

\* the debounced search has just displayed results for the text
SearchDisplayed(text) ==
    lastOp = "timeout" /\ shown.fresh /\ shown.query = Trim(text)

\* the text of the last input event is another one: a further input event
TextChanged(text) == burstLast # text

ExactMatch(haystack) == ToLower(haystack) = ToLower(query)

SubstringMatch(haystack) ==
    ~ExactMatch(haystack) /\ Includes(ToLower(haystack), ToLower(query))

SubsequenceMatch(haystack) ==
    /\ ~Includes(ToLower(haystack), ToLower(query))
    /\ IsSubsequence(ToLower(query), ToLower(haystack))

NoMatch(haystack) == ~IsSubsequence(ToLower(query), ToLower(haystack))

\* C34: for one needle, Utils.fuzzySearch returns more for a haystack equal
\* to the needle than for any haystack that contains it, more for a haystack
\* that contains it than for any haystack that matches it only as a
\* subsequence, whatever the lengths, and 0 for a haystack that does not
\* match.
C34_MatchKindsRanked ==
    (kind = "fuzzy" /\ pc = "done") =>
        \A i \in 1..2, j \in 1..2 :
            /\ (ExactMatch(store[i]) /\ SubstringMatch(store[j])) => ranked[i] > ranked[j]
            /\ (SubstringMatch(store[i]) /\ SubsequenceMatch(store[j])) =>
                   ranked[i] > ranked[j]
            /\ (ExactMatch(store[i]) /\ SubsequenceMatch(store[j])) => ranked[i] > ranked[j]
            /\ NoMatch(store[i]) => ranked[i] = 0

\* the query is a subsequence of the feature's title, of its description or
\* of one of its tags
FuzzyMatched(feature) ==
    \/ IsSubsequence(SearchTerm, ToLower(Localized(feature.title, language)))
    \/ IsSubsequence(SearchTerm, ToLower(Localized(feature.description, language)))
    \/ \E t \in 1..Len(feature.tags) : IsSubsequence(SearchTerm, ToLower(feature.tags[t]))

\* the feature's only match is its description, as a subsequence
DescriptionSubsequenceOnly(feature) ==
    /\ SubsequenceOnly(Localized(feature.description, language))
    /\ NoSignal(Localized(feature.title, language))
    /\ \A t \in 1..Len(feature.tags) : NoSignal(feature.tags[t])
    /\ RecordScore(feature) = 12 * Unit

\* C35: calculateFuzzyScore returns 0 only when Utils.fuzzySearch is 0 for
\* the title, the description and every tag, so every feature in which the
\* query is a subsequence of the title, the description or a tag is in the
\* result of searchFeatures.
C35_ThresholdKeepsMatches ==
    /\ (kind = "threshold" /\ pc = "done") =>
           (ranked[1] = 0 <=> \A i \in 1..3 : FuzzySearch(SearchTerm, store[i]) = 0)
    /\ (kind = "features" /\ Ranked) =>
           \A i \in 1..Len(store) :
               FuzzyMatched(store[i]) => \E j \in 1..Len(ranked) : ranked[j] = store[i]

\* a feature matched by nothing but a subsequence of its description, the
\* weakest match there is, is in the result
C35_Witness ==
    /\ kind = "features"
    /\ Ranked
    /\ \E i \in 1..Len(store) :
           /\ DescriptionSubsequenceOnly(store[i])
           /\ \E j \in 1..Len(ranked) : ranked[j] = store[i]

\* C36: for every feature list, query, language and filter state, searching
\* and then filtering (handleSearch) displays the same ordered list as
\* filtering and then searching (handleFilter).
C36_SearchFilterCommute ==
    (kind = "commute" /\ pc = "done") => ranked[1] = ranked[2]

\* the filter removed a feature and the search put a later feature first
C36_Witness ==
    /\ kind = "commute"
    /\ pc = "done"
    /\ Len(ranked[1]) = 2
    /\ ranked[1][1].id > ranked[1][2].id
    /\ ranked[2] = ranked[1]

\* The cache key specification: queries that hold "-" and a language code
\* are typed, Enter runs the search, and the language changes.
InitCache == localStorage = Missing /\ watch = {"shown", "op"} /\ InitDS /\ RankIdle

NextCache ==
    \/ InputEventHyphen
    \/ KeyEnter
    \/ ChangeLanguage

SpecCache == InitCache /\ [][NextCache]_vars

\* the queries performSearch can be called with, and the languages
CacheQueries == { Trim(t) : t \in { u \in HyphenTexts : Len(Trim(u)) >= MinQueryLength } }

\* the (query, language) pairs whose cache key is the given one
PairsWithKey(key) ==
    { pair \in CacheQueries \X Languages : CacheKey(pair[1], pair[2]) = key }

\* C37: two distinct (query, language) pairs never share a cache entry: every
\* key of the cache is the key of exactly one pair, and the entry holds the
\* results of that pair's query under that pair's language.
C37_OnePairPerCacheEntry ==
    \A key \in DOMAIN searchCache :
        \E pair \in PairsWithKey(key) :
            /\ PairsWithKey(key) = {pair}
            /\ searchCache[key] = SearchDocuments(Documents, pair[1], pair[2])

\* the cache holds the query "ab" and the query "ab-zh" at once, the first
\* served from the cache, after the language changed to "zh"
C37_Witness ==
    /\ currentLanguage = "zh"
    /\ CacheKey(<<"a", "b">>, "zh") \in DOMAIN searchCache
    /\ CacheKey(<<"a", "b", "-", "z", "h">>, "zh") \in DOMAIN searchCache
    /\ shown.cached
    /\ shown.query = <<"a", "b">>
    /\ Len(shown.results) > 0

(***************************************************************************)
(* The language of the documentation hub                                   *)
(***************************************************************************)
\* I18nService.isLanguageSupported
IsLanguageSupported(lang) == lang \in Languages

FallbackLanguage == "en"

\* the languages a caller may ask for: the two of the buttons and one more
RequestedLanguages == Languages \cup {"fr"}

\* DocsApp.setComponentLanguages: the tree, then the search controller
SetComponentLanguages(s, lang) == SetLanguage(NavigationSetLanguage(s, lang), lang)

\* DocsApp.handleLanguageChange, the observer of the I18nService
HandleLanguageChange(s, newLanguage) ==
    SetComponentLanguages([s EXCEPT !.docsLanguage = newLanguage], newLanguage)

\* I18nService.setLanguage without a DocsApp listening
I18nSetLanguageUnobserved(s, requested) ==
    LET lang == IF IsLanguageSupported(requested) THEN requested ELSE FallbackLanguage
        set == [s EXCEPT !.i18nLanguage = lang]
    IN  IF s.quotaExceeded THEN [set EXCEPT !.thrown = TRUE]
        ELSE [set EXCEPT !.languageItem = Item(lang)]

\* I18nService.setLanguage: the language is validated and assigned, then
\* stored (setItem may throw), then the observers are told
I18nSetLanguage(s, requested) ==
    LET set == I18nSetLanguageUnobserved(s, requested)
    IN  IF set.thrown THEN set ELSE HandleLanguageChange(set, set.i18nLanguage)

\* DocsApp.changeLanguage: a rejection of setLanguage is logged
DocsChangeLanguage(s, requested) ==
    [I18nSetLanguage(s, requested) EXCEPT !.thrown = FALSE]

\* I18nService.init: the stored language, else the browser's
I18nInit(s, browserLanguage) ==
    I18nSetLanguageUnobserved(s, IF s.languageItem = Missing THEN browserLanguage
                                 ELSE s.languageItem.text)

\* DocsApp.initializeServices and initializeComponents
InitializeDocsApp(s, browserLanguage) ==
    LET services == I18nInit(Construct(s), browserLanguage)
    IN  IF services.thrown THEN services
        ELSE SetComponentLanguages(
                 [services EXCEPT !.docsLanguage = services.i18nLanguage],
                 services.i18nLanguage)

\* DocsApp.init()
DocsInit ==
    \E browserLanguage \in Languages :
        /\ kind = "docs"
        /\ pc = "services"
        /\ pc' = IF InitializeDocsApp(Now, browserLanguage).thrown THEN "failed" ELSE "ready"
        /\ Becomes([InitializeDocsApp(Now, browserLanguage) EXCEPT !.thrown = FALSE])
        /\ Op("init")
        /\ UNCHANGED <<store, kind, query, language, ranked, initialized, raised,
                       sinceInput, burstLast, executed, pushed, before>>

\* a click on a language button, or any other call of changeLanguage
DocsLanguageRequest ==
    \E requested \in RequestedLanguages :
        /\ kind = "docs"
        /\ pc = "ready"
        /\ Becomes(DocsChangeLanguage(Now, requested))
        /\ Op("changeLanguage")
        /\ UNCHANGED <<rankVars, sinceInput, burstLast, executed, pushed, before>>

\* The language specification: the hub starts over a stored language, the
\* visitor types and changes the language, and the storage fills up.
InitLanguages ==
    /\ AppIdle
    /\ store = << >>
    /\ kind = "docs"
    /\ query = Empty
    /\ language = "en"
    /\ ranked = << >>
    /\ Loaded
    /\ pc = "services"
    /\ localStorage = Missing
    /\ watch = {"op", "languages"}
    /\ InitDS

NextLanguages ==
    \/ DocsInit
    \/ QuotaChanges
    \/ DocsLanguageRequest
    \/ pc = "ready" /\ InputEvent

SpecLanguages == InitLanguages /\ [][NextLanguages]_vars

\* C38: after initialization and after any sequence of language changes, the
\* language of DocumentSearch, of NavigationTree and of DocsApp is the one
\* I18nService.getCurrentLanguage() returns.
C38_LanguagesAgree ==
    (kind = "docs" /\ pc = "ready") =>
        /\ currentLanguage = i18nLanguage
        /\ navLanguage = i18nLanguage
        /\ docsLanguage = i18nLanguage

(***************************************************************************)
(* The language of the features page                                       *)
(***************************************************************************)
\* ClaudeCodeFeaturesApp.setLanguage: the language is assigned and stored,
\* the translations are applied, and renderFeatures draws filteredFeatures
\* as it is
AppSetLanguage(a, lang) == [a EXCEPT !.currentLanguage = lang]

\* a catalog whose titles differ between the languages
LanguageFeatures ==
    StoreOf3(
        FacetFeature([en |-> <<"a", "b">>, zh |-> <<"b", "b">>], <<"b", "b">>, "stable",
                     [tags |-> << >>, version |-> <<"1">>]),
        FacetFeature([en |-> <<"b", "a">>, zh |-> <<"a", "b">>], <<"a", "b">>, "beta",
                     [tags |-> << >>, version |-> <<"2">>]),
        FacetFeature(En(<<"a", "a", "b">>), <<"b", "b">>, "new",
                     [tags |-> << >>, version |-> <<"1">>]))

\* a click on the button of the other language
ClickLanguage ==
    \E lang \in Languages :
        /\ kind = "applang"
        /\ lang # language
        /\ language' = AppSetLanguage(App, lang).currentLanguage
        /\ filteredFeatures' = AppSetLanguage(App, lang).filteredFeatures
        /\ languageItem' = Item(lang)
        /\ i18nLanguage' = lang
        /\ lastOp' = "setLanguage"
        /\ UNCHANGED <<store, kind, query, ranked, pc, initialized, raised,
                       currentLanguage, searchCache, searchHistory, historyType,
                       localStorage, quotaExceeded, thrown, searchTimeout, inputs,
                       suggestionEls, suggestionsDisplay, activeSuggestion,
                       activeDocumentId, navItemStyle, navCategoryStyle,
                       docsLanguage, navLanguage, modal,
                       filters, currentQuery, debouncedSearch, suggestions,
                       selectedSuggestion, suggestionsShown, strayTimers,
                       sinceInput, burstLast, executed, shown, pushed, before, watch>>

\* The features language specification: the visitor searches, filters and
\* switches the language of the loaded features page.
InitAppLanguage ==
    /\ store = LanguageFeatures
    /\ kind = "applang"
    /\ query = Empty
    /\ language = "en"
    /\ ranked = << >>
    /\ Loaded
    /\ pc = "idle"
    /\ filters = DefaultFilters
    /\ filteredFeatures = LanguageFeatures
    /\ currentQuery = Empty
    /\ debouncedSearch = NoDebounce
    /\ NoSuggestions
    /\ localStorage = Missing
    /\ watch = {"op"}
    /\ InitDS

NextAppLanguage ==
    \/ AppInputEvent
    \/ DebounceFires
    \/ ChangeFacet
    \/ ClickLanguage

SpecAppLanguage == InitAppLanguage /\ [][NextAppLanguage]_vars

MaxModalTimers == 3

ModalFeatures == {"f1", "f2"}

\* a click on a card: show(feature)
ShowModal ==
    \E feature \in ModalFeatures \cup {NoFeature} :
        /\ modal.animateTimers < MaxModalTimers
        /\ Becomes([Now EXCEPT !.modal = ModalShow(modal, feature)])
        /\ Op(IF feature = NoFeature THEN "showNothing" ELSE "show")
        /\ UNCHANGED <<rankVars, sinceInput, burstLast, executed, pushed, before>>

\* the close button, a click on the overlay, or Escape: close()
CloseModal ==
    /\ modal.hideTimers < MaxModalTimers
    /\ Becomes([Now EXCEPT !.modal = ModalClose(modal)])
    /\ Op("close")
    /\ UNCHANGED <<rankVars, sinceInput, burstLast, executed, pushed, before>>

\* 250 ms after a close() that found the modal open
HideTimerFires ==
    /\ modal.hideTimers > 0
    /\ Becomes([Now EXCEPT !.modal = ModalHide(modal)])
    /\ Op("hide")
    /\ UNCHANGED <<rankVars, sinceInput, burstLast, executed, pushed, before>>

\* 10 ms after a show()
AnimateTimerFires ==
    /\ modal.animateTimers > 0
    /\ Becomes([Now EXCEPT !.modal = ModalAnimate(modal)])
    /\ Op("animate")
    /\ UNCHANGED <<rankVars, sinceInput, burstLast, executed, pushed, before>>

InitModal == localStorage = Missing /\ watch = {"op"} /\ InitDS /\ RankIdle

NextModal ==
    \/ ShowModal
    \/ CloseModal
    \/ HideTimerFires
    \/ AnimateTimerFires

SpecModal == InitModal /\ [][NextModal]_vars

ModalOpen ==
    /\ modal.isOpen
    /\ modal.display = "flex"
    /\ modal.currentFeature # NoFeature

\* C40: after show(feature) the modal is open, and it stays open through
\* every step that is not a call of close(), whatever close() calls and hide
\* timers came before the show.
C40_ModalStaysOpen ==
    /\ [](lastOp = "show" => ModalOpen)
    /\ [][(lastOp = "show" /\ lastOp' # "close") => ModalOpen']_vars

====
